---- MODULE Spec2Model ----
(***************************************************************************)
(* img2dataset: the per-shard download engine (downloader.py), its DNS     *)
(* resolution with a pool of public resolvers, and the DNS answer caches   *)
(* (cache_copy.py, lru_cache.py).                                          *)
(*                                                                         *)
(* The module holds one state machine per component, each with its own     *)
(* initial predicate and specification:                                    *)
(*   CacheSpec  GlobalCache of cache_copy.py                               *)
(*   SimpleSpec SimpleCache of cache_copy.py                               *)
(*   RedisSpec  LRUCacheRedis of lru_cache.py, one operation at a time     *)
(*   RaceSpec   the same, the clients' commands interleaved                *)
(*   FetchSpec  download_image_with_retry / download_image /               *)
(*              resolve_domain run by the pool's threads                   *)
(*   ShardSpec  Downloader.download_shard: producer, workers, item loop    *)
(*   ItemSpec   the same, shorter shards, every configuration              *)
(*   KeySpec    compute_key                                                *)
(*   PoolSpec   the same, the threads' calls overlapping                   *)
(*   RobotsSpec is_disallowed on a response's X-Robots-Tag headers         *)
(*   BackendSpec Downloader.__init__ with each dns_cache_type, one shard   *)
(*   LiveSpec   one shard under fair scheduling, resolve_domain included   *)
(* A component's actions leave the other components' variables unchanged.  *)
(***************************************************************************)
EXTENDS Integers, Sequences, FiniteSets, TLC

\* Python's None.  Optional values are strings, so None compares with them.
None == "None"

\* A dict: a function whose domain is its key set.
Dicts(K, V) == UNION {[D -> V] : D \in SUBSET K}

EmptyDict == [k \in {} |-> None]

VARIABLES
    \* ---- cache_copy.py: GlobalCache ----
    g_data,      \* GlobalCache.data
    g_lock,      \* GlobalCache.lock: None when free, else the holding thread
    c_pc,        \* per thread: position inside the GlobalCache method it runs
    c_new,       \* per thread: merge's argument new_data
    c_keys,      \* per thread: merge's local keys_to_add
    c_pre,       \* per thread: g_data as it was when merge took the lock (history)
    c_ret,       \* per thread: value returned by the last get, or None
    c_key,       \* per thread: key of the last get, or NoGet (history)
    c_dumped,    \* per thread: the object the last dump returned
    c_snap       \* per thread: self.data at the instant of the last dump, and whether
                 \* a merge had then added some, not all, of its keys (history)

cacheVars == <<g_data, g_lock, c_pc, c_new, c_keys, c_pre, c_ret, c_key, c_dumped, c_snap>>

VARIABLES
    \* ---- lru_cache.py: LRUCacheRedis and the Redis database it talks to ----
    r_store,     \* the database's string keys: cache_key -> serialized answer
    r_lru,       \* the database's list "lru_list", most recent first
    r_stats,     \* per client: self.statistics, [hits, misses]
    r_pc,        \* per client: position inside the method it runs
    r_op,        \* per client: the method it runs, or None
    r_key,       \* per client: the method's argument key (a CacheKey, or None)
    r_data,      \* per client: get's local cache_data / put's serialized_value
    r_ret,       \* per client: the value get returned
    r_pre,       \* per client: store, list and statistics when the method was called (history)
    r_put,       \* CacheKey -> the answer of the latest put not flushed since (history)
    r_recent,    \* the cache_keys put and not flushed since, latest put or hit first (history)
    r_ops        \* number of methods called so far (bounded)

redisVars == <<r_store, r_lru, r_stats, r_pc, r_op, r_key, r_data, r_ret, r_pre, r_put, r_recent, r_ops>>

VARIABLES
    \* ---- downloader.py: download_image_with_retry, download_image, resolve_domain ----
    dns_blacklist,   \* the set object that is resolve_domain's default dns_blacklist
    nameservers,     \* resolver.nameservers of the one Resolver the threads share
    f_pc,            \* per thread: position in the code
    f_conf,          \* the Downloader's retries, resolver and dns_num_retries
    f_domain,        \* per thread: hostname of the url of the row being downloaded
    f_attempts,      \* per thread: iterations of the retry loop started so far
    f_out,           \* per thread: the locals img_stream, err of download_image_with_retry
    f_sel,           \* per thread: resolve_domain's selected_dns_server
    f_num_retries,   \* per thread: resolve_domain's num_retries at the current depth
    f_nsel,          \* per thread: resolvers selected in this call chain (history)
    f_res,           \* per thread: what resolve_domain returned
    f_ret,           \* per thread: what download_image_with_retry returned
    f_calls          \* calls of download_image_with_retry so far (bounded)

fetchVars == <<dns_blacklist, nameservers, f_pc, f_conf, f_domain, f_attempts, f_out, f_sel,
               f_num_retries, f_nsel, f_res, f_ret, f_calls>>

VARIABLES
    \* ---- downloader.py: Downloader.__call__ / download_shard ----
    thread_count,        \* self.thread_count (0 before the Downloader is constructed)
    count,               \* len(shard_to_dl); the rows' keys are 0 .. count - 1
    semaphore,           \* value of Semaphore(self.thread_count * 2)
    s_pc,                \* position of the thread that runs download_shard
    gen_pc,              \* data_generator, run by the pool's task thread: "acquire" / "yield"
    gen_next,            \* number of rows data_generator has yielded
    inqueue,             \* the pool's task queue: keys waiting for a worker
    w_key,               \* per worker thread: key of the row it is downloading, or NoKey
    outqueue,            \* results waiting for the item loop: <<[key, img_stream, error_message]>>
    s_cur,               \* the loop variables key, img_stream, error_message
    writes,              \* per key: calls of sample_writer.write for that row (history)
    printed,             \* keys printed as "Sample {key} failed to download" (history)
    released,            \* calls of semaphore.release() so far (history)
    successes,           \* download_shard's local counters
    failed_to_download,
    failed_to_resize,
    s_result,            \* what __call__ returned: <<ok, row>>, or NoResult
    hash_indice,         \* index of the verify_hash_type column, or None
    s_resolver,            \* self.resolver: None unless use_public_dns
    s_meta,              \* the loop body's locals: meta's status and error_message, img,
                         \* and what the body did on the way (history)
    s_write,             \* arguments of the body's sample_writer.write call (history)
    s_steps,             \* the steps after the item loop, in the order they ran (history)
    s_stats,             \* the arguments write_stats was called with, or NoStats
    s_invocations,       \* calls of download_shard made by __call__ (history)
    status_dict,         \* status_dict: per key, the calls of increment(key)
    written,             \* per status: the sample_writer.write calls that returned (history)
    s_hist               \* per key (history): times the row was put on the task queue
                         \* (handed), taken by a worker (fetched), and run through the
                         \* loop body (classified)

shardVars == <<thread_count, count, semaphore, s_pc, gen_pc, gen_next, inqueue, w_key, outqueue,
               s_cur, writes, printed, released, successes, failed_to_download,
               failed_to_resize, s_result, hash_indice, s_resolver, s_meta, s_write, s_steps,
               s_stats, s_invocations, status_dict, written, s_hist>>

VARIABLES
    \* ---- downloader.py: compute_key ----
    k_call,              \* the arguments of the last compute_key call
    k_ret                \* the str_key it returned, or None

keyVars == <<k_call, k_ret>>

VARIABLES
    \* ---- cache_copy.py: SimpleCache ----
    sc_data,             \* SimpleCache.data
    sc_pc,               \* per thread: position inside dump
    sc_dumped,           \* per thread: dump's local dumped_data
    sc_pre,              \* per thread: sc_data as it was when dump was called (history)
    sc_dumps,            \* the dicts the dump calls have returned, in order (history)
    sc_put,              \* the keys put so far (history)
    sc_raced,            \* some call ran between a dump's copy and its clear (history)
    sc_ops               \* calls so far (bounded)

simpleVars == <<sc_data, sc_pc, sc_dumped, sc_pre, sc_dumps, sc_put, sc_raced, sc_ops>>

VARIABLES
    \* ---- downloader.py: is_disallowed and its call in download_image ----
    x_pc,                \* "idle", then "checked" once the response's headers were checked
    x_response,          \* the response's X-Robots-Tag headers as the server built them:
                         \* a sequence of [scope, directives] (history)
    x_headers,           \* r.headers.get_all("X-Robots-Tag", []): the header values
    x_token,             \* user_agent_token, or None
    x_directives,        \* disallowed_header_directives, a set (None is modelled by {})
    x_ret                \* the (img_stream, err) download_image returns

robotsVars == <<x_pc, x_response, x_headers, x_token, x_directives, x_ret>>

VARIABLES
    \* ---- downloader.py: Downloader.__init__ ----
    d_state,             \* "default": built with the default arguments; "built": built
                         \* with an explicit dns_cache_type; "raised": __init__ raised
    d_arg,               \* the dns_cache_type __init__ was called with (history)
    cache_type           \* self.cache_type, None when __init__ raised before setting it

downloaderVars == <<d_state, d_arg, cache_type>>

vars == <<cacheVars, redisVars, fetchVars, shardVars, keyVars, simpleVars, robotsVars,
          downloaderVars>>

\* What a component's actions leave alone: the other components.
CacheFrame ==
    UNCHANGED <<redisVars, fetchVars, shardVars, keyVars, simpleVars, robotsVars, downloaderVars>>

RedisFrame ==
    UNCHANGED <<cacheVars, fetchVars, shardVars, keyVars, simpleVars, robotsVars, downloaderVars>>

FetchFrame ==
    UNCHANGED <<cacheVars, redisVars, shardVars, keyVars, simpleVars, robotsVars, downloaderVars>>

ShardFrame ==
    UNCHANGED <<cacheVars, redisVars, fetchVars, keyVars, simpleVars, robotsVars, downloaderVars>>

KeyFrame ==
    UNCHANGED <<cacheVars, redisVars, fetchVars, shardVars, simpleVars, robotsVars, downloaderVars>>

SimpleFrame ==
    UNCHANGED <<cacheVars, redisVars, fetchVars, shardVars, keyVars, robotsVars, downloaderVars>>

RobotsFrame ==
    UNCHANGED <<cacheVars, redisVars, fetchVars, shardVars, keyVars, simpleVars, downloaderVars>>

DownloaderFrame ==
    UNCHANGED <<cacheVars, redisVars, fetchVars, shardVars, keyVars, simpleVars, robotsVars>>

(***************************************************************************)
(* cache_copy.py: GlobalCache                                              *)
(***************************************************************************)

\* Bounds of the cache model.
NumCacheThreads == 2
NumCacheKeys == 2
NumAnswers == 2

CacheThreads == {"ct" \o ToString(i) : i \in 1..NumCacheThreads}
CacheKeys == 1..NumCacheKeys
Answers == {"ans" \o ToString(i) : i \in 1..NumAnswers}

\* `with self.lock:` can be entered by thread t.
LockFree_nolock(t) == TRUE

LockFree(t) == g_lock = None

\* CacheKeys are numbers; this one stands for "no get yet".
NoGet == 0

\* A dict object handed to a caller: a new dict with the entries `data`, or (ref
\* "self.data") the cache's own dict.
DictCopy_self(data) == [ref |-> "self.data", data |-> data]

\* self.data.copy()
DictCopy(data) == [ref |-> "copy", data |-> data]

NoDump == [ref |-> None, data |-> EmptyDict]

NoSnap == [at |-> EmptyDict, partial |-> FALSE]

\* What a caller reads in the dict object it was handed.
Deref(obj) == IF obj.ref = "self.data" THEN g_data ELSE obj.data

\* merge(new_data) is called and enters `with self.lock:`.
MergeAcquire(t, new_data) ==
    /\ CacheFrame
    /\ c_pc[t] = "idle"
    /\ LockFree(t)
    /\ g_lock' = t
    /\ c_new' = [c_new EXCEPT ![t] = new_data]
    /\ c_pre' = [c_pre EXCEPT ![t] = g_data]
    /\ c_pc' = [c_pc EXCEPT ![t] = "merge_keys"]
    /\ UNCHANGED <<g_data, c_keys, c_ret, c_key, c_dumped, c_snap>>

\* keys_to_add = new_data.keys() - self.data.keys()
KeysToAdd_all(new_data, data) == DOMAIN new_data

KeysToAdd(new_data, data) == DOMAIN new_data \ DOMAIN data

MergeKeys(t) ==
    /\ CacheFrame
    /\ c_pc[t] = "merge_keys"
    /\ c_keys' = [c_keys EXCEPT ![t] = KeysToAdd(c_new[t], g_data)]
    /\ c_pc' = [c_pc EXCEPT ![t] = "merge_update"]
    /\ UNCHANGED <<g_data, g_lock, c_new, c_pre, c_ret, c_key, c_dumped, c_snap>>

\* dict.update(other): other's entries are written over self's.
DictUpdate(data, other) ==
    [k \in DOMAIN data \cup DOMAIN other |->
        IF k \in DOMAIN other THEN other[k] ELSE data[k]]

\* keys_to_add_data = {k: new_data[k] for k in keys_to_add}
\* self.data.update(keys_to_add_data)
\* update inserts the entries one after the other; a CacheKey holds a
\* dns.name.Name, whose hash is computed by Python code, so other threads can run
\* between two insertions.  c_keys keeps the keys still to insert.
MergeUpdate(t) ==
    /\ CacheFrame
    /\ c_pc[t] = "merge_update"
    /\ IF c_keys[t] = {}
       THEN /\ c_pc' = [c_pc EXCEPT ![t] = "merge_release"]
            /\ UNCHANGED <<g_data, c_keys>>
       ELSE \E k \in c_keys[t] :
                /\ g_data' = DictUpdate(g_data, [x \in {k} |-> c_new[t][k]])
                /\ c_keys' = [c_keys EXCEPT ![t] = @ \ {k}]
                /\ c_pc' = [c_pc EXCEPT ![t] =
                                IF c_keys[t] = {k} THEN "merge_release" ELSE "merge_update"]
    /\ UNCHANGED <<g_lock, c_new, c_pre, c_ret, c_key, c_dumped, c_snap>>

\* Leaving the with block releases the lock; merge returns None.
MergeRelease(t) ==
    /\ CacheFrame
    /\ c_pc[t] = "merge_release"
    /\ g_lock' = IF g_lock = t THEN None ELSE g_lock
    /\ c_pc' = [c_pc EXCEPT ![t] = "idle"]
    /\ c_new' = [c_new EXCEPT ![t] = EmptyDict]
    /\ c_keys' = [c_keys EXCEPT ![t] = {}]
    /\ c_pre' = [c_pre EXCEPT ![t] = EmptyDict]
    /\ UNCHANGED <<g_data, c_ret, c_key, c_dumped, c_snap>>

\* get(key): with self.lock: return self.data.get(key)
GlobalGet(t, key) ==
    /\ CacheFrame
    /\ c_pc[t] = "idle"
    /\ LockFree(t)
    /\ c_ret' = [c_ret EXCEPT ![t] =
                    IF key \in DOMAIN g_data THEN g_data[key] ELSE None]
    /\ c_key' = [c_key EXCEPT ![t] = key]
    /\ UNCHANGED <<g_data, g_lock, c_pc, c_new, c_keys, c_pre, c_dumped, c_snap>>

\* A merge has inserted some of its new keys and not yet all of them.
MidMerge(u) ==
    /\ c_pc[u] = "merge_update"
    /\ c_keys[u] # {}
    /\ (DOMAIN c_new[u] \ DOMAIN c_pre[u]) \ c_keys[u] # {}

\* dump(): with self.lock: dumped_data = self.data.copy(); return dumped_data
GlobalDump(t) ==
    /\ CacheFrame
    /\ c_pc[t] = "idle"
    /\ LockFree(t)
    /\ c_dumped' = [c_dumped EXCEPT ![t] = DictCopy(g_data)]
    /\ c_snap' = [c_snap EXCEPT ![t] =
                     [at |-> g_data, partial |-> \E u \in CacheThreads : MidMerge(u)]]
    /\ UNCHANGED <<g_data, g_lock, c_pc, c_new, c_keys, c_pre, c_ret, c_key>>

CacheNext ==
    \E t \in CacheThreads :
        \/ \E new_data \in Dicts(CacheKeys, Answers) : MergeAcquire(t, new_data)
        \/ MergeKeys(t)
        \/ MergeUpdate(t)
        \/ MergeRelease(t)
        \/ \E key \in CacheKeys : GlobalGet(t, key)
        \/ GlobalDump(t)

(***************************************************************************)
(* lru_cache.py: LRUCacheRedis                                             *)
(***************************************************************************)

\* Bounds of the Redis cache model.
NumRedisClients == 2
MaxRedisOps == 4

RedisClients == {"rc" \o ToString(i) : i \in 1..NumRedisClients}

\* CacheKey = (name, rdtype, rdclass); a name may itself hold ':' and digits.
RedisKeys == {<<"a", 1, 1>>, <<"a", 28, 1>>, <<"a:1", 1, 1>>}

\* _generate_cache_key: f"{name!s}:{int(rdtype)}:{int(rdclass)}"
GenerateCacheKey_notype(key) == key[1] \o ":" \o ToString(key[3])

GenerateCacheKey(key) ==
    key[1] \o ":" \o ToString(key[2]) \o ":" \o ToString(key[3])

\* pickle.dumps(value): the answer's byte string.
PickleDumps(value) == "pickle(" \o value \o ")"

\* pickle.loads(data): the answer whose byte string data is.
PickleLoads(data) == CHOOSE value \in Answers : PickleDumps(value) = data

\* LREM lru_list 0 element: every occurrence is removed.
LRem_none(list, element) == list

LRem(list, element) == SelectSeq(list, LAMBDA e : e # element)

\* LPUSH lru_list element: pushed at the head.
LPush_tail(list, element) == Append(list, element)

LPush(list, element) == <<element>> \o list

\* self.statistics.misses += 1
CountMiss_ashit(stats) == [stats EXCEPT !.hits = @ + 1]

CountMiss(stats) == [stats EXCEPT !.misses = @ + 1]

\* self.statistics.hits += 1
CountHit(stats) == [stats EXCEPT !.hits = @ + 1]

\* A method is called by client c (one method at a time when `alone`).
RedisCall(c, op, key, alone) ==
    /\ RedisFrame
    /\ r_pc[c] = "idle"
    /\ r_ops < MaxRedisOps
    /\ alone => \A d \in RedisClients : r_pc[d] = "idle"
    /\ r_ops' = r_ops + 1
    /\ r_op' = [r_op EXCEPT ![c] = op]
    /\ r_key' = [r_key EXCEPT ![c] = key]
    /\ r_ret' = [r_ret EXCEPT ![c] = None]
    /\ r_pre' = [r_pre EXCEPT ![c] =
                    [store |-> r_store, lru |-> r_lru, stats |-> r_stats[c]]]

\* History of recency: a put or a hit makes cache_key the latest, a flush
\* forgets it.
Forget(recent, cache_key) == SelectSeq(recent, LAMBDA e : e # cache_key)

Touch(recent, cache_key) == <<cache_key>> \o Forget(recent, cache_key)

\* get: cache_data = self.conn.get(cache_key); on None, misses += 1; return None
RedisGetGET(c, key, alone) ==
    /\ RedisCall(c, "get", key, alone)
    /\ LET cache_key == GenerateCacheKey(key)
       IN  IF cache_key \in DOMAIN r_store
           THEN /\ r_data' = [r_data EXCEPT ![c] = r_store[cache_key]]
                /\ r_pc' = [r_pc EXCEPT ![c] = "get_lrem"]
                /\ r_recent' = Touch(r_recent, cache_key)
                /\ UNCHANGED r_stats
           ELSE /\ r_stats' = [r_stats EXCEPT ![c] = CountMiss(@)]
                /\ r_pc' = [r_pc EXCEPT ![c] = "return"]
                /\ UNCHANGED <<r_data, r_recent>>
    /\ UNCHANGED <<r_store, r_lru, r_put>>

\* get: self.conn.lrem("lru_list", 0, cache_key)
RedisGetLREM(c) ==
    /\ RedisFrame
    /\ r_pc[c] = "get_lrem"
    /\ r_lru' = LRem(r_lru, GenerateCacheKey(r_key[c]))
    /\ r_pc' = [r_pc EXCEPT ![c] = "get_lpush"]
    /\ UNCHANGED <<r_store, r_stats, r_op, r_key, r_data, r_ret, r_pre, r_put, r_recent, r_ops>>

\* get: self.conn.lpush("lru_list", cache_key)
RedisGetLPUSH(c) ==
    /\ RedisFrame
    /\ r_pc[c] = "get_lpush"
    /\ r_lru' = LPush(r_lru, GenerateCacheKey(r_key[c]))
    /\ r_pc' = [r_pc EXCEPT ![c] = "get_hit"]
    /\ UNCHANGED <<r_store, r_stats, r_op, r_key, r_data, r_ret, r_pre, r_put, r_recent, r_ops>>

\* get: self.statistics.hits += 1; return answer   (answer = pickle.loads(cache_data))
RedisGetHit(c) ==
    /\ RedisFrame
    /\ r_pc[c] = "get_hit"
    /\ r_stats' = [r_stats EXCEPT ![c] = CountHit(@)]
    /\ r_ret' = [r_ret EXCEPT ![c] = PickleLoads(r_data[c])]
    /\ r_pc' = [r_pc EXCEPT ![c] = "return"]
    /\ UNCHANGED <<r_store, r_lru, r_op, r_key, r_data, r_pre, r_put, r_recent, r_ops>>

\* put: serialized_value = pickle.dumps(value); self.conn.set(cache_key, serialized_value)
RedisPutSET(c, key, value, alone) ==
    /\ RedisCall(c, "put", key, alone)
    /\ LET serialized_value == PickleDumps(value)
       IN  /\ r_data' = [r_data EXCEPT ![c] = serialized_value]
           /\ r_store' = [k \in DOMAIN r_store \cup {GenerateCacheKey(key)} |->
                            IF k = GenerateCacheKey(key) THEN serialized_value
                            ELSE r_store[k]]
    /\ r_put' = [k \in DOMAIN r_put \cup {key} |-> IF k = key THEN value ELSE r_put[k]]
    /\ r_recent' = Touch(r_recent, GenerateCacheKey(key))
    /\ r_pc' = [r_pc EXCEPT ![c] = "put_lrem"]
    /\ UNCHANGED <<r_lru, r_stats>>

\* put: self.conn.lrem("lru_list", 0, cache_key)
RedisPutLREM(c) ==
    /\ RedisFrame
    /\ r_pc[c] = "put_lrem"
    /\ r_lru' = LRem(r_lru, GenerateCacheKey(r_key[c]))
    /\ r_pc' = [r_pc EXCEPT ![c] = "put_lpush"]
    /\ UNCHANGED <<r_store, r_stats, r_op, r_key, r_data, r_ret, r_pre, r_put, r_recent, r_ops>>

\* put: self.conn.lpush("lru_list", cache_key)
RedisPutLPUSH(c) ==
    /\ RedisFrame
    /\ r_pc[c] = "put_lpush"
    /\ r_lru' = LPush(r_lru, GenerateCacheKey(r_key[c]))
    /\ r_pc' = [r_pc EXCEPT ![c] = "return"]
    /\ UNCHANGED <<r_store, r_stats, r_op, r_key, r_data, r_ret, r_pre, r_put, r_recent, r_ops>>

\* DEL cache_key: the key is gone from the database, the others stay.
Delete_none(store, cache_key) == store

Delete(store, cache_key) == [k \in DOMAIN store \ {cache_key} |-> store[k]]

\* flush's argument when no key is given (key = None): not a CacheKey tuple.
NoCacheKey == <<>>

\* flush(key): self.conn.delete(cache_key)
RedisFlushDEL(c, key, alone) ==
    /\ RedisCall(c, "flush", key, alone)
    /\ r_store' = Delete(r_store, GenerateCacheKey(key))
    /\ r_put' = [k \in DOMAIN r_put \ {key} |-> r_put[k]]
    /\ r_recent' = Forget(r_recent, GenerateCacheKey(key))
    /\ r_pc' = [r_pc EXCEPT ![c] = "flush_lrem"]
    /\ UNCHANGED <<r_lru, r_stats, r_data>>

\* flush(key): self.conn.lrem("lru_list", 0, cache_key)
RedisFlushLREM(c) ==
    /\ RedisFrame
    /\ r_pc[c] = "flush_lrem"
    /\ r_lru' = LRem(r_lru, GenerateCacheKey(r_key[c]))
    /\ r_pc' = [r_pc EXCEPT ![c] = "return"]
    /\ UNCHANGED <<r_store, r_stats, r_op, r_key, r_data, r_ret, r_pre, r_put, r_recent, r_ops>>

\* flush(None): self.conn.flushdb() deletes every key of the database, lru_list too
RedisFlushDB(c, alone) ==
    /\ RedisCall(c, "flush", NoCacheKey, alone)
    /\ r_store' = EmptyDict
    /\ r_lru' = <<>>
    /\ r_put' = EmptyDict
    /\ r_recent' = <<>>
    /\ r_pc' = [r_pc EXCEPT ![c] = "return"]
    /\ UNCHANGED <<r_stats, r_data>>

\* The method returns to its caller.
RedisReturn(c) ==
    /\ RedisFrame
    /\ r_pc[c] = "return"
    /\ r_pc' = [r_pc EXCEPT ![c] = "idle"]
    /\ r_op' = [r_op EXCEPT ![c] = None]
    /\ r_key' = [r_key EXCEPT ![c] = None]
    /\ r_data' = [r_data EXCEPT ![c] = None]
    /\ r_ret' = [r_ret EXCEPT ![c] = None]
    /\ r_pre' = [r_pre EXCEPT ![c] = None]
    /\ UNCHANGED <<r_store, r_lru, r_stats, r_put, r_recent, r_ops>>

RedisStep(alone, keys) ==
    \E c \in RedisClients :
        \/ \E key \in keys : RedisGetGET(c, key, alone)
        \/ RedisGetLREM(c)
        \/ RedisGetLPUSH(c)
        \/ RedisGetHit(c)
        \/ \E key \in keys, value \in Answers : RedisPutSET(c, key, value, alone)
        \/ RedisPutLREM(c)
        \/ RedisPutLPUSH(c)
        \/ \E key \in keys : RedisFlushDEL(c, key, alone)
        \/ RedisFlushLREM(c)
        \/ RedisFlushDB(c, alone)
        \/ RedisReturn(c)

\* The methods run one at a time.
RedisNext == RedisStep(TRUE, RedisKeys)

\* Several workers or processes run their methods at the same time: the
\* database executes one command at a time, in any order across the clients.
\* The clients work on the keys of one domain.
RaceKeys == {<<"a", 1, 1>>, <<"a", 28, 1>>}

RaceNext == RedisStep(FALSE, RaceKeys)

(***************************************************************************)
(* downloader.py: download_image_with_retry, download_image,               *)
(* resolve_domain                                                          *)
(***************************************************************************)

\* Bounds of the fetch model.
NumFetchThreads == 2
MaxFetchCalls == 2
MaxRetries == 1
MaxDnsRetries == 2

FetchThreads == {"ft" \o ToString(i) : i \in 1..NumFetchThreads}

\* The hostnames of the rows' urls.
FetchDomains == {"a.com", "b.org"}

PUBLIC_DNS_SERVERS ==
    {"8.8.8.8", "8.8.4.4", "1.1.1.1", "9.9.9.9", "1.0.0.1",
     "208.67.222.222", "208.67.220.220"}

\* `sub in s` on Python strings.
Contains(s, sub) ==
    \E i \in 1..(Len(s) - Len(sub) + 1) : SubSeq(s, i, i + Len(sub) - 1) = sub

\* str(e) of the exceptions resolver.resolve(domain) raises.
DnsErrorText(kind, domain) ==
    CASE kind = "NXDOMAIN" -> "The DNS query name does not exist: " \o domain \o "."
      [] kind = "NoAnswer" ->
            "The DNS response does not contain an answer to the question: "
                \o domain \o ". IN A"
      [] OTHER -> "All nameservers failed to answer the query " \o domain \o ". IN A"

DnsErrorKinds == {"NXDOMAIN"}

parse_dns_error(error) ==
    IF Contains(error, "The DNS query name does not exist")
    THEN "The DNS query name does not exist."
    ELSE IF Contains(error, "The DNS response does not contain an answer to the question")
    THEN "The DNS response does not contain an answer to the question."
    ELSE IF Contains(error, "All nameservers failed to answer the query data.whicdn.com. IN A")
    THEN "All nameservers failed to answer the query data.whicdn.com. IN A."
    ELSE error

\* A (img_stream, err) pair as download_image returns it (the key is the row's).
Outcome(img_stream, err) == [img_stream |-> img_stream, err |-> err]

NoConf == [ready |-> FALSE, retries |-> 0, resolver |-> None, dns_num_retries |-> 0]

NoRes == [success |-> FALSE, ip_or_err |-> None]

\* Downloader.__init__ keeps retries and dns_num_retries; download_shard sets up
\* self.resolver when use_public_dns is set.  Every call of the pool passes these.
FetchSetup(retries, resolver, dns_num_retries) ==
    /\ FetchFrame
    /\ ~f_conf.ready
    /\ f_conf' = [ready |-> TRUE, retries |-> retries, resolver |-> resolver,
                  dns_num_retries |-> dns_num_retries]
    /\ UNCHANGED <<dns_blacklist, nameservers, f_pc, f_domain, f_attempts, f_out, f_sel,
                   f_num_retries, f_nsel, f_res, f_ret, f_calls>>

\* A pool thread calls download_image_with_retry(row, ...) for a row with this hostname
\* (with `alone`, while no other thread is inside a call).
FetchCall(t, domain, alone) ==
    /\ FetchFrame
    /\ f_conf.ready
    /\ f_pc[t] = "idle"
    /\ alone => \A u \in FetchThreads : f_pc[u] = "idle"
    /\ f_calls < MaxFetchCalls
    /\ f_calls' = f_calls + 1
    /\ f_domain' = [f_domain EXCEPT ![t] = domain]
    /\ f_attempts' = [f_attempts EXCEPT ![t] = 0]
    /\ f_out' = [f_out EXCEPT ![t] = Outcome(None, None)]
    /\ f_ret' = [f_ret EXCEPT ![t] = Outcome(None, None)]
    /\ f_pc' = [f_pc EXCEPT ![t] = "loop"]
    /\ UNCHANGED <<dns_blacklist, nameservers, f_conf, f_sel, f_num_retries, f_nsel,
                   f_res>>

\* for _ in range(retries + 1): another iteration is left.
MoreAttempts_extra(t) == f_attempts[t] < f_conf.retries + 2

MoreAttempts(t) == f_attempts[t] < f_conf.retries + 1

\* The loop head: the next download_image call starts (and, with a resolver, calls
\* resolve_domain(domain, resolver, num_retries=dns_num_retries), which takes the
\* default dns_blacklist), or the loop is over and `return key, None, err` runs.
FetchLoop(t) ==
    /\ FetchFrame
    /\ f_pc[t] = "loop"
    /\ IF MoreAttempts(t)
       THEN /\ f_attempts' = [f_attempts EXCEPT ![t] = @ + 1]
            /\ f_pc' = [f_pc EXCEPT ![t] =
                            IF f_conf.resolver # None THEN "select" ELSE "request"]
            /\ f_num_retries' = [f_num_retries EXCEPT ![t] = f_conf.dns_num_retries]
            /\ f_sel' = [f_sel EXCEPT ![t] = None]
            /\ f_nsel' = [f_nsel EXCEPT ![t] = 0]
            /\ f_res' = [f_res EXCEPT ![t] = NoRes]
            /\ UNCHANGED f_ret
       ELSE /\ f_ret' = [f_ret EXCEPT ![t] =
                            Outcome(None, f_out[t].err)]
            /\ f_pc' = [f_pc EXCEPT ![t] = "returned"]
            /\ UNCHANGED <<f_attempts, f_num_retries, f_sel, f_nsel, f_res>>
    /\ UNCHANGED <<dns_blacklist, nameservers, f_conf, f_domain, f_out, f_calls>>

\* resolve_domain:
\*   while selected_dns_server is None or selected_dns_server in dns_blacklist:
\*       selected_dns_server = random.choice(PUBLIC_DNS_SERVERS)
\* A blacklisted choice is overwritten by the next iteration before anything reads
\* it, so such an iteration leaves the state as it is; the loop is left with a
\* choice that is not blacklisted.  With every server blacklisted it is never left.
FetchSelect(t, server) ==
    /\ FetchFrame
    /\ f_pc[t] = "select"
    /\ server \notin dns_blacklist
    /\ f_sel' = [f_sel EXCEPT ![t] = server]
    /\ f_pc' = [f_pc EXCEPT ![t] = "nameservers"]
    /\ f_nsel' = [f_nsel EXCEPT ![t] = @ + 1]
    /\ UNCHANGED <<dns_blacklist, nameservers, f_conf, f_domain, f_attempts, f_out,
                   f_num_retries, f_res, f_ret, f_calls>>

\* resolve_domain: resolver.nameservers = [selected_dns_server]
FetchSetNameservers(t) ==
    /\ FetchFrame
    /\ f_pc[t] = "nameservers"
    /\ nameservers' = f_sel[t]
    /\ f_pc' = [f_pc EXCEPT ![t] = "resolve"]
    /\ UNCHANGED <<dns_blacklist, f_conf, f_domain, f_attempts, f_out, f_sel, f_num_retries,
                   f_nsel, f_res, f_ret, f_calls>>

\* resolve_domain: answer = resolver.resolve(domain) returns; return True, ip
FetchResolveOk(t) ==
    /\ FetchFrame
    /\ f_pc[t] = "resolve"
    /\ f_res' = [f_res EXCEPT ![t] = [success |-> TRUE, ip_or_err |-> "10.0.0.1"]]
    /\ f_pc' = [f_pc EXCEPT ![t] = "resolved"]
    /\ UNCHANGED <<dns_blacklist, nameservers, f_conf, f_domain, f_attempts, f_out, f_sel,
                   f_num_retries, f_nsel, f_ret, f_calls>>

\* resolve_domain: resolver.resolve(domain) raises e.  With retries left the selected
\* server is blacklisted and resolve_domain calls itself with the same set and
\* num_retries - 1; otherwise it returns False, parse_dns_error(str(e)).
FetchResolveFails(t, kind) ==
    /\ FetchFrame
    /\ f_pc[t] = "resolve"
    /\ IF f_num_retries[t] > 0
       THEN /\ dns_blacklist' = dns_blacklist \cup {f_sel[t]}
            /\ f_num_retries' = [f_num_retries EXCEPT ![t] = @ - 1]
            /\ f_sel' = [f_sel EXCEPT ![t] = None]
            /\ f_pc' = [f_pc EXCEPT ![t] = "select"]
            /\ UNCHANGED f_res
       ELSE /\ f_res' = [f_res EXCEPT ![t] =
                            [success |-> FALSE,
                             ip_or_err |-> parse_dns_error(
                                               DnsErrorText(kind, f_domain[t]))]]
            /\ f_pc' = [f_pc EXCEPT ![t] = "resolved"]
            /\ UNCHANGED <<dns_blacklist, f_num_retries, f_sel>>
    /\ UNCHANGED <<nameservers, f_conf, f_domain, f_attempts, f_out, f_nsel, f_ret, f_calls>>

\* A failed resolution handed back with the resolver's text alone.
DnsFailure_bare(ip_or_err, domain) == Outcome(None, ip_or_err)

\* return key, None, f"DNS resolution failed: {ip_or_err} for {domain}"
DnsFailure(ip_or_err, domain) ==
    Outcome(None, "DNS resolution failed: " \o ip_or_err \o " for " \o domain)

\* download_image: success, ip_or_err = resolve_domain(...);
\* if not success: return key, None, f"DNS resolution failed: {ip_or_err} for {domain}"
FetchResolved(t) ==
    /\ FetchFrame
    /\ f_pc[t] = "resolved"
    /\ IF f_res[t].success
       THEN /\ f_pc' = [f_pc EXCEPT ![t] = "request"]
            /\ UNCHANGED f_out
       ELSE /\ f_out' = [f_out EXCEPT ![t] = DnsFailure(f_res[t].ip_or_err, f_domain[t])]
            /\ f_pc' = [f_pc EXCEPT ![t] = "check"]
    /\ f_sel' = [f_sel EXCEPT ![t] = None]
    /\ f_num_retries' = [f_num_retries EXCEPT ![t] = 0]
    /\ f_nsel' = [f_nsel EXCEPT ![t] = 0]
    /\ f_res' = [f_res EXCEPT ![t] = NoRes]
    /\ UNCHANGED <<dns_blacklist, nameservers, f_conf, f_domain, f_attempts, f_ret, f_calls>>

\* What the request and the response can come to once the Request object is built.
HttpOutcomes ==
    { Outcome("img_stream", None),
      Outcome(None, "Use of image disallowed by X-Robots-Tag directive"),
      Outcome(None, "HTTP Error 404: Not Found") }

\* download_image from `request = urllib.request.Request(...)` on.  The headers read
\* the local `domain`, which is assigned only under `if resolver is not None:`;
\* without a resolver the read raises and the handler returns key, None, str(err).
\* With a resolver: urlopen, the X-Robots-Tag check and r.read().
FetchRequest(t, outcome) ==
    /\ FetchFrame
    /\ f_pc[t] = "request"
    /\ f_out' = [f_out EXCEPT ![t] =
                    IF f_conf.resolver = None
                    THEN Outcome(None, "local variable 'domain' referenced before assignment")
                    ELSE outcome]
    /\ f_pc' = [f_pc EXCEPT ![t] = "check"]
    /\ UNCHANGED <<dns_blacklist, nameservers, f_conf, f_domain, f_attempts, f_sel, f_num_retries,
                   f_nsel, f_res, f_ret, f_calls>>

\* download_image_with_retry: if img_stream is not None: return key, img_stream, err
FetchCheck(t) ==
    /\ FetchFrame
    /\ f_pc[t] = "check"
    /\ IF f_out[t].img_stream # None
       THEN /\ f_ret' = [f_ret EXCEPT ![t] = f_out[t]]
            /\ f_pc' = [f_pc EXCEPT ![t] = "returned"]
       ELSE /\ f_pc' = [f_pc EXCEPT ![t] = "loop"]
            /\ UNCHANGED f_ret
    /\ UNCHANGED <<dns_blacklist, nameservers, f_conf, f_domain, f_attempts, f_out, f_sel,
                   f_num_retries, f_nsel, f_res, f_calls>>

\* The caller has the result; the thread is free for the next row.
FetchReturn(t) ==
    /\ FetchFrame
    /\ f_pc[t] = "returned"
    /\ f_pc' = [f_pc EXCEPT ![t] = "idle"]
    /\ f_domain' = [f_domain EXCEPT ![t] = None]
    /\ f_attempts' = [f_attempts EXCEPT ![t] = 0]
    /\ f_out' = [f_out EXCEPT ![t] = Outcome(None, None)]
    /\ f_sel' = [f_sel EXCEPT ![t] = None]
    /\ f_num_retries' = [f_num_retries EXCEPT ![t] = 0]
    /\ f_nsel' = [f_nsel EXCEPT ![t] = 0]
    /\ f_res' = [f_res EXCEPT ![t] = NoRes]
    /\ f_ret' = [f_ret EXCEPT ![t] = Outcome(None, None)]
    /\ UNCHANGED <<dns_blacklist, nameservers, f_conf, f_calls>>

\* The steps of the pool's threads; random.choice picks among `servers`.
FetchThreadStep(alone, servers) ==
    \E t \in FetchThreads :
        \/ \E domain \in FetchDomains : FetchCall(t, domain, alone)
        \/ FetchLoop(t)
        \/ \E server \in servers : FetchSelect(t, server)
        \/ FetchSetNameservers(t)
        \/ FetchResolveOk(t)
        \/ \E kind \in DnsErrorKinds : FetchResolveFails(t, kind)
        \/ FetchResolved(t)
        \/ \E outcome \in HttpOutcomes : FetchRequest(t, outcome)
        \/ FetchCheck(t)
        \/ FetchReturn(t)

FetchStep(alone) ==
    \/ \E retries \in 0..MaxRetries, resolver \in {None, "resolver"},
          dns_num_retries \in 0..MaxDnsRetries :
            FetchSetup(retries, resolver, dns_num_retries)
    \/ FetchThreadStep(alone, PUBLIC_DNS_SERVERS)

\* The pool's threads run their calls one after the other.
FetchNext == FetchStep(TRUE)

\* Largest dns_num_retries of PoolSpec.
MaxPoolDnsRetries == 1

\* The choices of random.choice followed in PoolSpec.
PoolServers == {"8.8.8.8", "1.1.1.1", "9.9.9.9"}

\* The pool's threads run their calls at the same time, as imap_unordered makes
\* them, with the one Resolver of the Downloader and no retry of a row.
PoolNext ==
    \/ \E dns_num_retries \in 0..MaxPoolDnsRetries :
            FetchSetup(0, "resolver", dns_num_retries)
    \/ FetchThreadStep(FALSE, PoolServers)

(***************************************************************************)
(* downloader.py: Downloader.__call__ / download_shard                     *)
(*                                                                         *)
(* Three kinds of thread take part: the pool's task thread, which pulls    *)
(* data_generator and puts each yielded row on the task queue; the         *)
(* thread_count worker threads, which run download_image_with_retry on a   *)
(* row and put the result on the result queue; and the calling thread,     *)
(* which iterates imap_unordered's results in the item loop.               *)
(***************************************************************************)
MaxWorkers == 2

MaxItems == 5

\* Largest shard of ItemSpec.
MaxRows == 3

PoolWorkers == 1..MaxWorkers

ShardKeys == 0..(MaxItems - 1)

\* Keys are numbers; this one stands for "no row" where Python has no value yet.
NoKey == -1

NoItem == [key |-> NoKey, img_stream |-> None, error_message |-> None]

\* __call__'s argument row = (shard_id, shard_file).
ShardRow == <<0, "shard_0.feather">>

NoResult == <<>>

\* meta["status"], meta["error_message"] and img at the top of the loop body, and
\* what the body has not done yet.
NoMeta == [status |-> None, error_message |-> None, img |-> None,
           test_hash_differs |-> FALSE, resizer_called |-> FALSE]

NoWrite == [key |-> NoKey, img |-> None, status |-> None, error_message |-> None]

NoStats == <<>>

\* The statuses a written sample carries, and no write counted yet.
Statuses == {"success", "failed_to_download", "failed_to_resize"}

NoneWritten == [status \in Statuses |-> 0]

NoHist == [k \in ShardKeys |-> [handed |-> 0, fetched |-> 0, classified |-> 0]]

\* semaphore = Semaphore(self.thread_count * 2)
SemaphoreValue_plus(n) == n * 2 + 1

SemaphoreValue(n) == n * 2

\* __call__: return (True, row) / return (False, row)
CallResult_true(ok) == <<TRUE, ShardRow>>

CallResult(ok) == <<ok, ShardRow>>

\* Downloader._VALID_CACHE_TYPES
_VALID_CACHE_TYPES == {"individual_lru", "shared_lru", "redis"}

\* The dns_cache_type arguments tried: the valid ones and one that is not.
CacheTypeArgs == _VALID_CACHE_TYPES \cup {"disk"}

\* Downloader(..., dns_cache_type=...): __init__ raises ValueError on a tag that
\* is not in _VALID_CACHE_TYPES, before self.cache_type is set; no object
\* exists then.  The object of the initial state is built with the default tag.
DownloaderInit(dns_cache_type) ==
    /\ DownloaderFrame
    /\ d_state = "default"
    /\ s_pc = "init"
    /\ s_invocations = 0
    /\ d_arg' = dns_cache_type
    /\ IF dns_cache_type \notin _VALID_CACHE_TYPES
       THEN /\ d_state' = "raised"
            /\ cache_type' = None
       ELSE /\ d_state' = "built"
            /\ cache_type' = dns_cache_type

\* Does self.resolver.cache have the attribute data?  dns.resolver.LRUCache
\* (individual_lru, shared_lru) keeps its entries in self.data; LRUCacheRedis
\* sets only self.conn on top of CacheBase's lock and statistics.
HasData(type) == type # "redis"

\* __call__(row) enters download_shard, which reads the shard file (n_rows rows),
\* zeroes the counters, finds hash_indice, creates the semaphore, the generator, the
\* writer and the pool, and sets up self.resolver when use_public_dns is set.
ShardStart(n_threads, n_rows, verify_hash, use_public_dns) ==
    /\ ShardFrame
    /\ d_state # "raised"
    /\ s_pc = "init"
    /\ s_invocations' = s_invocations + 1
    /\ thread_count' = n_threads
    /\ count' = n_rows
    /\ hash_indice' = IF verify_hash THEN "hash_indice" ELSE None
    /\ s_resolver' = IF use_public_dns THEN "resolver" ELSE None
    /\ semaphore' = SemaphoreValue(n_threads)
    /\ gen_pc' = "acquire"
    /\ s_pc' = "loop"
    /\ UNCHANGED <<status_dict, written, s_hist, gen_next, inqueue, w_key, outqueue, s_cur, writes, printed, released,
                   successes, failed_to_download, failed_to_resize, s_result, s_meta,
                   s_write, s_steps, s_stats>>

\* fs.open / pa.ipc.open_file raises: nothing of the shard is processed and
\* __call__'s handler returns (False, row).
ShardOpenFails ==
    /\ ShardFrame
    /\ d_state # "raised"
    /\ s_pc = "init"
    /\ s_invocations' = s_invocations + 1
    /\ s_pc' = "done"
    /\ s_result' = CallResult(FALSE)
    /\ UNCHANGED <<status_dict, written, s_hist, thread_count, count, semaphore, gen_pc, gen_next, inqueue, w_key, outqueue,
                   s_cur, writes, printed, released, successes, failed_to_download,
                   failed_to_resize, hash_indice, s_resolver, s_meta, s_write, s_steps,
                   s_stats>>

\* data_generator: semaphore.acquire() for the next element of key_url_list;
\* blocks while the semaphore's value is 0.
GenAcquire ==
    /\ ShardFrame
    /\ s_pc \in {"loop", "process", "write", "release"}
    /\ gen_pc = "acquire"
    /\ gen_next < count
    /\ semaphore > 0
    /\ semaphore' = semaphore - 1
    /\ gen_pc' = "yield"
    /\ UNCHANGED <<status_dict, written, s_hist, thread_count, count, s_pc, gen_next, inqueue, w_key, outqueue, s_cur, writes,
                   printed, released, successes, failed_to_download, failed_to_resize,
                   s_result, hash_indice, s_resolver, s_meta, s_write, s_steps, s_stats,
                   s_invocations>>

\* A generator that goes on with the row after next.
NextRow_skip(n) == n + 2

\* for e in key_url_list: the element after the n-th.
NextRow(n) == n + 1

\* data_generator: yield e; the task thread puts the row on the task queue.
GenYield ==
    /\ ShardFrame
    /\ s_pc \in {"loop", "process", "write", "release"}
    /\ gen_pc = "yield"
    /\ inqueue' = Append(inqueue, gen_next)
    /\ gen_next' = NextRow(gen_next)
    /\ gen_pc' = "acquire"
    /\ s_hist' = [s_hist EXCEPT ![gen_next].handed = @ + 1]
    /\ UNCHANGED <<status_dict, written, thread_count, count, semaphore, s_pc, w_key, outqueue, s_cur, writes, printed,
                   released, successes, failed_to_download, failed_to_resize, s_result,
                   hash_indice, s_resolver, s_meta, s_write, s_steps, s_stats, s_invocations>>

\* A free worker thread takes the next task and calls download_image_with_retry.
WorkerTake(w) ==
    /\ ShardFrame
    /\ s_pc \in {"loop", "process", "write", "release"}
    /\ w <= thread_count
    /\ w_key[w] = NoKey
    /\ inqueue # <<>>
    /\ w_key' = [w_key EXCEPT ![w] = Head(inqueue)]
    /\ inqueue' = Tail(inqueue)
    /\ s_hist' = [s_hist EXCEPT ![Head(inqueue)].fetched = @ + 1]
    /\ UNCHANGED <<status_dict, written, thread_count, count, semaphore, s_pc, gen_pc, gen_next, outqueue, s_cur,
                   writes, printed, released, successes, failed_to_download, failed_to_resize,
                   s_result, hash_indice, s_resolver, s_meta, s_write, s_steps, s_stats,
                   s_invocations>>

\* What download_image_with_retry returns besides the key: a payload and no error,
\* or no payload and the last attempt's error.
FetchResults == {[img_stream |-> "img_stream", error_message |-> None],
                 [img_stream |-> None, error_message |-> "HTTP Error 404: Not Found"]}

\* The worker's call returns; its result goes on the result queue.
WorkerDone(w, res) ==
    /\ ShardFrame
    /\ s_pc \in {"loop", "process", "write", "release"}
    /\ w_key[w] # NoKey
    /\ outqueue' = Append(outqueue, [key |-> w_key[w], img_stream |-> res.img_stream,
                                      error_message |-> res.error_message])
    /\ w_key' = [w_key EXCEPT ![w] = NoKey]
    /\ UNCHANGED <<status_dict, written, s_hist, thread_count, count, semaphore, s_pc, gen_pc, gen_next, inqueue, s_cur, writes,
                   printed, released, successes, failed_to_download, failed_to_resize,
                   s_result, hash_indice, s_resolver, s_meta, s_write, s_steps, s_stats,
                   s_invocations>>

\* for key, img_stream, error_message in thread_pool.imap_unordered(...): the next
\* result is bound to the loop variables.
LoopNext ==
    /\ ShardFrame
    /\ s_pc = "loop"
    /\ outqueue # <<>>
    /\ s_cur' = Head(outqueue)
    /\ outqueue' = Tail(outqueue)
    /\ s_pc' = "process"
    /\ UNCHANGED <<status_dict, written, s_hist, thread_count, count, semaphore, gen_pc, gen_next, inqueue, w_key, writes,
                   printed, released, successes, failed_to_download, failed_to_resize,
                   s_result, hash_indice, s_resolver, s_meta, s_write, s_steps, s_stats,
                   s_invocations>>

\* How the body of the item loop runs up to its sample_writer.write call, for a
\* result with a payload: the hash differs, the resizer reports an error, all is
\* well, or a call on the way raises (the resizer before a counter is touched;
\* getattr(hashlib, self.compute_hash) after successes += 1).
PayloadCases == {"hash mismatch", "failed_to_resize", "success", "resizer raises",
                 "compute_hash raises"}

\* The body's meta["status"], meta["error_message"] and img when it reaches its
\* write call or raises, by the branch taken.  The failure branches pass None as
\* the image; meta["status"] of the last branch is assigned after the hash is
\* computed.
MetaFor_nostatus(case, error_message) ==
    [status |-> None,
     error_message |-> error_message,
     img |-> IF case = "success" THEN "img" ELSE None,
     test_hash_differs |-> case = "hash mismatch",
     resizer_called |-> case \notin {"failed_to_download", "hash mismatch"}]

MetaFor_resized(case, error_message) ==
    [status |-> IF case = "failed_to_download" THEN "failed_to_download"
                ELSE IF case \in {"failed_to_resize", "hash mismatch"} THEN "failed_to_resize"
                ELSE IF case = "success" THEN "success"
                ELSE None,
     error_message |-> IF case = "failed_to_download" THEN error_message
                       ELSE IF case \in {"failed_to_resize", "hash mismatch"}
                            THEN "resizer error"
                       ELSE None,
     img |-> IF case \in {"success", "compute_hash raises"} THEN "img" ELSE None,
     test_hash_differs |-> case = "hash mismatch",
     resizer_called |-> case # "failed_to_download"]

MetaFor(case, error_message) ==
    [status |-> IF case \in {"failed_to_download", "hash mismatch"} THEN "failed_to_download"
                ELSE IF case = "failed_to_resize" THEN "failed_to_resize"
                ELSE IF case = "success" THEN "success"
                ELSE None,
     error_message |-> IF case = "failed_to_download" THEN error_message
                       ELSE IF case = "hash mismatch" THEN "hash mismatch"
                       ELSE IF case = "failed_to_resize" THEN "resizer error"
                       ELSE None,
     img |-> IF case \in {"success", "compute_hash raises"} THEN "img" ELSE None,
     test_hash_differs |-> case = "hash mismatch",
     resizer_called |-> case \notin {"failed_to_download", "hash mismatch"}]

\* sample_writer.write(...) is called for the row.
WriteCall(calls, key) == [calls EXCEPT ![key] = @ + 1]

\* Where the loop body goes on after `except Exception` has printed the sample:
\* semaphore.release().
AfterHandler_next == "loop"

AfterHandler == "release"

\* status_dict.increment(key): one more occurrence of key.
Increment(counter, key) ==
    [k \in DOMAIN counter \cup {key} |->
        IF k \in DOMAIN counter THEN counter[k] + (IF k = key THEN 1 ELSE 0) ELSE 1]

\* The key the branch taken passes to status_dict.increment: the worker's
\* error_message, "hash mismatch", the resizer's error_message, or the status
\* "success".
StatusKey(case, error_message) ==
    IF case = "failed_to_download" THEN error_message
    ELSE IF case = "hash mismatch" THEN "hash mismatch"
    ELSE IF case = "failed_to_resize" THEN "resizer error"
    ELSE "success"

\* The loop body from `try:` to the write call of the branch taken.  The counter of
\* the branch is incremented before the write.  An exception leaves the try block
\* for the handler, which prints the sample's key.
LoopProcess(case) ==
    /\ ShardFrame
    /\ s_pc = "process"
    /\ IF s_cur.error_message # None
       THEN /\ case = "failed_to_download"
            /\ failed_to_download' = failed_to_download + 1
            /\ s_pc' = "write"
            /\ UNCHANGED <<successes, failed_to_resize, printed>>
       ELSE /\ case \in PayloadCases
            /\ case = "hash mismatch" => hash_indice # None
            /\ failed_to_download' =
                   failed_to_download + (IF case = "hash mismatch" THEN 1 ELSE 0)
            /\ failed_to_resize' =
                   failed_to_resize + (IF case = "failed_to_resize" THEN 1 ELSE 0)
            /\ successes' =
                   successes + (IF case \in {"success", "compute_hash raises"} THEN 1 ELSE 0)
            /\ IF case \in {"resizer raises", "compute_hash raises"}
               THEN /\ printed' = printed \cup {s_cur.key}
                    /\ s_pc' = AfterHandler
               ELSE /\ s_pc' = "write"
                    /\ UNCHANGED printed
    /\ s_meta' = MetaFor(case, s_cur.error_message)
    /\ status_dict' = IF case = "resizer raises" THEN status_dict
                      ELSE Increment(status_dict, StatusKey(case, s_cur.error_message))
    /\ s_hist' = [s_hist EXCEPT ![s_cur.key].classified = @ + 1]
    /\ UNCHANGED <<written, thread_count, count, semaphore, gen_pc, gen_next, inqueue, w_key, outqueue,
                   s_cur, writes, released, s_result, hash_indice, s_resolver, s_write, s_steps,
                   s_stats, s_invocations>>

\* sample_writer.write(img or None, str_key, caption, meta) of the branch taken; the
\* writer may raise, which the loop's handler catches and prints.
LoopWrite(raises) ==
    /\ ShardFrame
    /\ s_pc = "write"
    /\ writes' = WriteCall(writes, s_cur.key)
    /\ s_write' = [key |-> s_cur.key, img |-> s_meta.img, status |-> s_meta.status,
                   error_message |-> s_meta.error_message]
    /\ printed' = IF raises THEN printed \cup {s_cur.key} ELSE printed
    /\ s_pc' = IF raises THEN AfterHandler ELSE "release"
    /\ written' = IF raises THEN written ELSE [written EXCEPT ![s_meta.status] = @ + 1]
    /\ UNCHANGED <<status_dict, s_hist, thread_count, count, semaphore, gen_pc, gen_next, inqueue, w_key, outqueue,
                   s_cur, released, successes, failed_to_download, failed_to_resize,
                   s_result, hash_indice, s_resolver, s_meta, s_steps, s_stats, s_invocations>>

\* Where download_shard goes on when imap_unordered is exhausted:
\* sample_writer.close().
AfterLoop_stats == "write_stats"

AfterLoop == "close"

\* A loop that is left after the first result.
Exhausted_early(taken, rows) == taken >= 1

\* for ... in thread_pool.imap_unordered(..., loader): the loop is over when the
\* result of every row has been taken.
Exhausted(taken, rows) == taken = rows

\* A release that frees two units.
Release_twice(value) == value + 2

\* Semaphore.release(): the value goes up by one.
Release(value) == value + 1

\* semaphore.release(): before `continue` in the failure branches, at the end of
\* the body otherwise (also after the handler).  imap_unordered is exhausted when
\* every row's result has been taken.
LoopRelease ==
    /\ ShardFrame
    /\ s_pc = "release"
    /\ semaphore' = Release(semaphore)
    /\ released' = released + 1
    /\ s_cur' = NoItem
    /\ s_meta' = NoMeta
    /\ s_write' = NoWrite
    /\ s_pc' = IF Exhausted(released + 1, count) THEN AfterLoop ELSE "loop"
    /\ UNCHANGED <<status_dict, written, s_hist, thread_count, count, gen_pc, gen_next, inqueue, w_key, outqueue, writes,
                   printed, successes, failed_to_download, failed_to_resize, s_result,
                   hash_indice, s_resolver, s_steps, s_stats, s_invocations>>

\* A shard without rows: the loop body never runs.
LoopEmpty ==
    /\ ShardFrame
    /\ s_pc = "loop"
    /\ count = 0
    /\ s_pc' = AfterLoop
    /\ UNCHANGED <<status_dict, written, s_hist, thread_count, count, semaphore, gen_pc, gen_next, inqueue, w_key, outqueue,
                   s_cur, writes, printed, released, successes, failed_to_download,
                   failed_to_resize, s_result, hash_indice, s_resolver, s_meta, s_write,
                   s_steps, s_stats, s_invocations>>

\* Where download_shard goes on when the writer is closed and the pool joined:
\* the statistics (end_time, the DNS figures, write_stats).
AfterClose_rm == "rm"

AfterClose == "write_stats"

\* sample_writer.close(); thread_pool.terminate(); thread_pool.join()
ShardClose ==
    /\ ShardFrame
    /\ s_pc = "close"
    /\ s_steps' = Append(s_steps, "close")
    /\ s_pc' = AfterClose
    /\ UNCHANGED <<status_dict, written, s_hist, thread_count, count, semaphore, gen_pc, gen_next, inqueue, w_key, outqueue,
                   s_cur, writes, printed, released, successes, failed_to_download,
                   failed_to_resize, s_result, hash_indice, s_resolver, s_meta, s_write,
                   s_stats, s_invocations>>

\* What self.resolver.cache reports: len(cache.data) and the statistics snapshot.
CacheSnapshots == {[hits |-> h, misses |-> m, size |-> z] : h \in 0..1, m \in 0..1, z \in 0..1}

\* dns_cache_misses = count: the figure reported when there is no resolver.
MissesWithoutResolver_zero(n) == 0

MissesWithoutResolver(n) == n

\* dns_cache_misses = count; dns_cache_hits = 0; dns_cache_size = 0, replaced by the
\* resolver's cache figures when self.resolver is not None;
\* write_stats(output_folder, shard_id, count, successes, failed_to_download, ...).
\* len(self.resolver.cache.data) raises AttributeError on a cache without data:
\* download_shard is left before write_stats and __call__ returns (False, row).
ShardWriteStats(cache) ==
    /\ ShardFrame
    /\ s_pc = "write_stats"
    /\ IF s_resolver # None /\ ~HasData(cache_type)
       THEN /\ s_pc' = "done"
            /\ s_result' = CallResult(FALSE)
            /\ UNCHANGED <<s_stats, s_steps>>
       ELSE /\ s_stats' = << [count |-> count,
                              successes |-> successes,
                              failed_to_download |-> failed_to_download,
                              failed_to_resize |-> failed_to_resize,
                              status_dict |-> status_dict,
                              dns_cache_hits |-> IF s_resolver # None THEN cache.hits ELSE 0,
                              dns_cache_misses |-> IF s_resolver # None THEN cache.misses
                                                   ELSE MissesWithoutResolver(count),
                              dns_cache_size |-> IF s_resolver # None THEN cache.size
                                                 ELSE 0] >>
            /\ s_steps' = Append(s_steps, "write_stats")
            /\ s_pc' = "rm"
            /\ UNCHANGED s_result
    /\ UNCHANGED <<status_dict, written, s_hist, thread_count, count, semaphore, gen_pc, gen_next, inqueue, w_key, outqueue,
                   s_cur, writes, printed, released, successes, failed_to_download,
                   failed_to_resize, hash_indice, s_resolver, s_meta, s_write,
                   s_invocations>>

\* fs.rm(shard_path); download_shard returns and __call__ returns (True, row).
ShardRm ==
    /\ ShardFrame
    /\ s_pc = "rm"
    /\ s_steps' = Append(s_steps, "rm")
    /\ s_pc' = "done"
    /\ s_result' = CallResult(TRUE)
    /\ UNCHANGED <<status_dict, written, s_hist, thread_count, count, semaphore, gen_pc, gen_next, inqueue, w_key, outqueue,
                   s_cur, writes, printed, released, successes, failed_to_download,
                   failed_to_resize, hash_indice, s_resolver, s_meta, s_write, s_stats,
                   s_invocations>>

\* sample_writer.close(), write_stats(...) or fs.rm(...) raises: download_shard is
\* left and __call__'s handler returns (False, row).
ShardStepFails ==
    /\ ShardFrame
    /\ s_pc \in {"close", "write_stats", "rm"}
    /\ s_pc' = "done"
    /\ s_result' = CallResult(FALSE)
    /\ UNCHANGED <<status_dict, written, s_hist, thread_count, count, semaphore, gen_pc, gen_next, inqueue, w_key, outqueue,
                   s_cur, writes, printed, released, successes, failed_to_download,
                   failed_to_resize, hash_indice, s_resolver, s_meta, s_write, s_steps,
                   s_stats, s_invocations>>

\* download_shard for shards of up to max_rows rows, with or without hash
\* verification and public DNS as the sets say.
ShardStep(max_rows, hash_choices, dns_choices) ==
    \/ \E n_threads \in 1..MaxWorkers, n_rows \in 0..max_rows,
          verify_hash \in hash_choices, use_public_dns \in dns_choices :
            ShardStart(n_threads, n_rows, verify_hash, use_public_dns)
    \/ ShardOpenFails
    \/ GenAcquire
    \/ GenYield
    \/ \E w \in PoolWorkers : WorkerTake(w)
    \/ \E w \in PoolWorkers, res \in FetchResults : WorkerDone(w, res)
    \/ LoopNext
    \/ \E case \in PayloadCases \cup {"failed_to_download"} : LoopProcess(case)
    \/ \E raises \in BOOLEAN : LoopWrite(raises)
    \/ LoopRelease
    \/ LoopEmpty
    \/ ShardClose
    \/ \E cache \in CacheSnapshots : ShardWriteStats(cache)
    \/ ShardRm
    \/ ShardStepFails

\* Shards of up to MaxItems rows, no hash verification, no public DNS.
ShardNext == ShardStep(MaxItems, {FALSE}, {FALSE})

\* Shards of up to MaxRows rows, every configuration.
ItemNext == ShardStep(MaxRows, BOOLEAN, BOOLEAN)

\* Largest shard of BackendSpec.
MaxBackendRows == 2

\* A Downloader constructed with each dns_cache_type, then one shard, with or
\* without public DNS, whose file opens and whose writer, stats sink and
\* filesystem do not raise.
BackendNext ==
    \/ \E dns_cache_type \in CacheTypeArgs : DownloaderInit(dns_cache_type)
    \/ \E n_threads \in 1..MaxWorkers, n_rows \in 0..MaxBackendRows,
          use_public_dns \in BOOLEAN :
            ShardStart(n_threads, n_rows, FALSE, use_public_dns)
    \/ GenAcquire
    \/ GenYield
    \/ \E w \in PoolWorkers : WorkerTake(w)
    \/ \E w \in PoolWorkers, res \in FetchResults : WorkerDone(w, res)
    \/ LoopNext
    \/ \E case \in PayloadCases \cup {"failed_to_download"} : LoopProcess(case)
    \/ LoopWrite(FALSE)
    \/ LoopRelease
    \/ LoopEmpty
    \/ ShardClose
    \/ \E cache \in CacheSnapshots : ShardWriteStats(cache)
    \/ ShardRm

(***************************************************************************)
(* downloader.py: download_shard with the workers' calls of resolve_domain *)
(***************************************************************************)
\* Largest shard of LiveSpec.
MaxLiveRows == 2

\* The dns_num_retries of LiveSpec's Downloader.
LiveDnsRetries == 7

\* PUBLIC_DNS_SERVERS in the order of the list.
PublicDnsList == <<"8.8.8.8", "8.8.4.4", "1.1.1.1", "9.9.9.9", "1.0.0.1",
                   "208.67.222.222", "208.67.220.220">>

\* The choice of random.choice followed here: the first server of the list that
\* is not in the blacklist.
FirstChoice(blacklist) ==
    PublicDnsList[CHOOSE i \in 1..Len(PublicDnsList) :
                    /\ PublicDnsList[i] \notin blacklist
                    /\ \A j \in 1..(i - 1) : PublicDnsList[j] \in blacklist]

\* Can the selection loop of resolve_domain be left?
\*   while selected_dns_server is None or selected_dns_server in dns_blacklist:
\*       selected_dns_server = random.choice(PUBLIC_DNS_SERVERS)
CanSelect(blacklist) == \E i \in 1..Len(PublicDnsList) : PublicDnsList[i] \notin blacklist

\* A worker's call is in resolve_domain: the query to the selected server raises
\* with retries left, the server goes on the default dns_blacklist, which all
\* calls of the process share, and resolve_domain calls itself.  A call chain
\* adds at most num_retries servers.
WorkerResolveFails(w) ==
    /\ UNCHANGED <<cacheVars, redisVars, shardVars, keyVars, simpleVars, robotsVars,
                   downloaderVars>>
    /\ s_pc \in {"loop", "process", "write", "release"}
    /\ s_resolver # None
    /\ w <= thread_count
    /\ w_key[w] # NoKey
    /\ CanSelect(dns_blacklist)
    /\ Cardinality(dns_blacklist) < LiveDnsRetries
    /\ dns_blacklist' = dns_blacklist \cup {FirstChoice(dns_blacklist)}
    /\ UNCHANGED <<nameservers, f_pc, f_conf, f_domain, f_attempts, f_out, f_sel,
                   f_num_retries, f_nsel, f_res, f_ret, f_calls>>

\* The worker's download_image_with_retry returns.  With a resolver every attempt
\* goes through the selection loop of resolve_domain first, which is left only
\* with a server that is not blacklisted.
WorkerReturns(w, res) ==
    /\ s_resolver # None => CanSelect(dns_blacklist)
    /\ WorkerDone(w, res)

\* One shard, its file opening and its collaborators returning without raising.
LiveNext ==
    \/ \E n_threads \in 1..MaxWorkers, n_rows \in 0..MaxLiveRows,
          use_public_dns \in BOOLEAN :
            ShardStart(n_threads, n_rows, FALSE, use_public_dns)
    \/ GenAcquire
    \/ GenYield
    \/ \E w \in PoolWorkers : WorkerTake(w)
    \/ \E w \in PoolWorkers : WorkerResolveFails(w)
    \/ \E w \in PoolWorkers, res \in FetchResults : WorkerReturns(w, res)
    \/ LoopNext
    \/ \E case \in PayloadCases \cup {"failed_to_download"} : LoopProcess(case)
    \/ LoopWrite(FALSE)
    \/ LoopRelease
    \/ LoopEmpty
    \/ ShardClose
    \/ \E cache \in CacheSnapshots : ShardWriteStats(cache)
    \/ ShardRm

(***************************************************************************)
(* downloader.py: compute_key                                              *)
(***************************************************************************)
\* Largest oom_sample_per_shard and oom_shard_count tried.
MaxDigits == 1

RECURSIVE Pow10(_)
\* 10**n
Pow10(n) == IF n = 0 THEN 1 ELSE 10 * Pow10(n - 1)

RECURSIVE ZeroPad(_, _)
\* format spec 0{width}d on a number that is not negative: the decimal digits,
\* zeros put in front while the string is shorter than width.
ZeroPad(digits, width) ==
    IF Len(digits) >= width THEN digits ELSE ZeroPad("0" \o digits, width)

compute_key_swapped(key, shard_id, oom_sample_per_shard, oom_shard_count) ==
    LET true_key == Pow10(oom_shard_count) * shard_id + key
        key_format == oom_sample_per_shard + oom_shard_count
    IN  ZeroPad(ToString(true_key), key_format)

compute_key(key, shard_id, oom_sample_per_shard, oom_shard_count) ==
    LET true_key == Pow10(oom_sample_per_shard) * shard_id + key
        key_format == oom_sample_per_shard + oom_shard_count
    IN  ZeroPad(ToString(true_key), key_format)

NoKeyCall == [key |-> 0, shard_id |-> 0, oom_sample_per_shard |-> 0, oom_shard_count |-> 0]

\* compute_key(key, shard_id, oom_sample_per_shard, oom_shard_count) is called, as
\* download_shard does for a row, with key below 10**oom_sample_per_shard and
\* shard_id below 10**oom_shard_count.
ComputeKeyCall(key, shard_id, oom_sample_per_shard, oom_shard_count) ==
    /\ KeyFrame
    /\ k_call' = [key |-> key, shard_id |-> shard_id,
                  oom_sample_per_shard |-> oom_sample_per_shard,
                  oom_shard_count |-> oom_shard_count]
    /\ k_ret' = compute_key(key, shard_id, oom_sample_per_shard, oom_shard_count)

KeyNext ==
    \E oom_sample_per_shard \in 0..MaxDigits, oom_shard_count \in 0..MaxDigits :
        \E key \in 0..(Pow10(oom_sample_per_shard) - 1),
           shard_id \in 0..(Pow10(oom_shard_count) - 1) :
            ComputeKeyCall(key, shard_id, oom_sample_per_shard, oom_shard_count)

(***************************************************************************)
(* cache_copy.py: SimpleCache ("no eviction policy, no lock")              *)
(***************************************************************************)
NumSimpleThreads == 2

NumSimpleKeys == 3

MaxSimpleOps == 5

SimpleThreads == {"st" \o ToString(i) : i \in 1..NumSimpleThreads}

SimpleKeys == 1..NumSimpleKeys

\* Some thread is between dump's copy and dump's clear.
InDump == \E u \in SimpleThreads : sc_pc[u] = "clear"

\* put(key, value): self.data[key] = value.  Entries are told apart by their keys:
\* a key is put once.
SimplePut(t, key, value) ==
    /\ SimpleFrame
    /\ sc_pc[t] = "idle"
    /\ sc_ops < MaxSimpleOps
    /\ key \notin sc_put
    /\ sc_ops' = sc_ops + 1
    /\ sc_data' = [k \in DOMAIN sc_data \cup {key} |-> IF k = key THEN value ELSE sc_data[k]]
    /\ sc_put' = sc_put \cup {key}
    /\ sc_raced' = (sc_raced \/ InDump)
    /\ UNCHANGED <<sc_pc, sc_dumped, sc_pre, sc_dumps>>

\* dump: dumped_data = self.data.copy()
SimpleDumpCopy(t) ==
    /\ SimpleFrame
    /\ sc_pc[t] = "idle"
    /\ sc_ops < MaxSimpleOps
    /\ sc_ops' = sc_ops + 1
    /\ sc_dumped' = [sc_dumped EXCEPT ![t] = sc_data]
    /\ sc_pre' = [sc_pre EXCEPT ![t] = sc_data]
    /\ sc_pc' = [sc_pc EXCEPT ![t] = "clear"]
    /\ sc_raced' = (sc_raced \/ InDump)
    /\ UNCHANGED <<sc_data, sc_dumps, sc_put>>

\* dict.clear()
Clear_none(data) == data

Clear(data) == EmptyDict

\* dump: self.data.clear()
SimpleDumpClear(t) ==
    /\ SimpleFrame
    /\ sc_pc[t] = "clear"
    /\ sc_data' = Clear(sc_data)
    /\ sc_pc' = [sc_pc EXCEPT ![t] = "return"]
    /\ UNCHANGED <<sc_dumped, sc_pre, sc_dumps, sc_put, sc_raced, sc_ops>>

\* dump: return dumped_data
SimpleDumpReturn(t) ==
    /\ SimpleFrame
    /\ sc_pc[t] = "return"
    /\ sc_dumps' = Append(sc_dumps, sc_dumped[t])
    /\ sc_dumped' = [sc_dumped EXCEPT ![t] = EmptyDict]
    /\ sc_pre' = [sc_pre EXCEPT ![t] = EmptyDict]
    /\ sc_pc' = [sc_pc EXCEPT ![t] = "idle"]
    /\ UNCHANGED <<sc_data, sc_put, sc_raced, sc_ops>>

\* The cache's methods, called by threads that share the object.
SimpleNext ==
    \E t \in SimpleThreads :
        \/ \E key \in SimpleKeys, value \in Answers : SimplePut(t, key, value)
        \/ SimpleDumpCopy(t)
        \/ SimpleDumpClear(t)
        \/ SimpleDumpReturn(t)

(***************************************************************************)
(* downloader.py: is_disallowed, and its call in download_image            *)
(***************************************************************************)
\* Largest number of X-Robots-Tag headers one response carries.
MaxHeaders == 2

\* The i-th character of a string, as a string.
CharAt(s, i) == SubSeq(s, i, i)

\* str.find: the position of the first sep in s, 0 when there is none.
Find(s, sep) ==
    IF \E i \in 1..Len(s) : CharAt(s, i) = sep
    THEN CHOOSE i \in 1..Len(s) :
            /\ CharAt(s, i) = sep
            /\ \A j \in 1..(i - 1) : CharAt(s, j) # sep
    ELSE 0

\* values.split(":", 1): at most one split, at the first separator.
split_once(s, sep) ==
    LET i == Find(s, sep)
    IN  IF i = 0 THEN <<s>>
        ELSE <<SubSeq(s, 1, i - 1), SubSeq(s, i + 1, Len(s))>>

\* str.split(","): split at every separator.
RECURSIVE split(_, _)
split(s, sep) ==
    LET i == Find(s, sep)
    IN  IF i = 0 THEN <<s>>
        ELSE <<SubSeq(s, 1, i - 1)>> \o split(SubSeq(s, i + 1, Len(s)), sep)

\* str.strip(): drop the leading and trailing blanks.
RECURSIVE strip(_)
strip(s) ==
    IF Len(s) = 0 THEN s
    ELSE IF CharAt(s, 1) = " " THEN strip(SubSeq(s, 2, Len(s)))
    ELSE IF CharAt(s, Len(s)) = " " THEN strip(SubSeq(s, 1, Len(s) - 1))
    ELSE s

UpperCase == "ABCDEFGHIJKLMNOPQRSTUVWXYZ"
LowerCase == "abcdefghijklmnopqrstuvwxyz"

\* str.lower(): every upper-case letter replaced by its lower-case letter.
RECURSIVE lower(_)
lower(s) ==
    IF Len(s) = 0 THEN s
    ELSE LET c == CharAt(s, 1)
             i == Find(UpperCase, c)
         IN  (IF i = 0 THEN c ELSE CharAt(LowerCase, i))
                \o lower(SubSeq(s, 2, Len(s)))

\* x.strip().lower() of line 39.
Normalise(x) == lower(strip(x))

\* One iteration of the loop of is_disallowed (lines 38-46): does this
\* header value make the function return True?
HeaderDisallows(values, user_agent_token, disallowed_header_directives) ==
    LET uatoken_directives == split_once(values, ":")
        parts == split(uatoken_directives[Len(uatoken_directives)], ",")
        directives == { Normalise(parts[i]) : i \in 1..Len(parts) }
        ua_token == IF Len(uatoken_directives) = 2
                    THEN lower(uatoken_directives[1])
                    ELSE None
    IN  /\ (ua_token = None \/ ua_token = user_agent_token)
        /\ directives \cap disallowed_header_directives # {}

\* is_disallowed: True as soon as one X-Robots-Tag header disallows.
is_disallowed(headers, user_agent_token, disallowed_header_directives) ==
    \E i \in 1..Len(headers) :
        HeaderDisallows(headers[i], user_agent_token, disallowed_header_directives)

RobotsError == "Use of image disallowed by X-Robots-Tag directive"

\* ---- what a server puts in an X-Robots-Tag header ----
\* A directive is a name, with a value for the directives that take one.
Directive(name) == [name |-> name, value |-> None]

DirectiveWithValue(name, value) == [name |-> name, value |-> value]

\* The user agents a header can be scoped to; None is an unscoped header.
RobotsScopes == {None, "img2dataset", "Img2Dataset", "otherbot"}

RobotsDirectiveLists ==
    { <<Directive("noai")>>,
      <<Directive("NoAI")>>,
      <<Directive("noindex")>>,
      <<Directive("noindex"), Directive("noimageai")>>,
      <<Directive("noai"), DirectiveWithValue("unavailable_after", "25 Jun 2030")>> }

RobotsHeaders ==
    { [scope |-> s, directives |-> d] : s \in RobotsScopes, d \in RobotsDirectiveLists }

\* The header lists of a response: up to MaxHeaders X-Robots-Tag headers.
RobotsResponses == UNION { [1..n -> RobotsHeaders] : n \in 0..MaxHeaders }

\* The configurations of Downloader.__init__ (lines 226-235): the token is
\* stripped and lower-cased or None, the directives are a set of stripped
\* lower-cased names or None (the empty set here).
RobotsTokens == {None, "img2dataset"}

RobotsDisallowSets == { {}, {"noai"}, {"noai", "noimageai"} }

RenderDirective(d) ==
    IF d.value = None THEN d.name ELSE d.name \o ": " \o d.value

RECURSIVE RenderDirectives(_)
RenderDirectives(ds) ==
    IF Len(ds) = 1 THEN RenderDirective(ds[1])
    ELSE RenderDirective(ds[1]) \o ", " \o RenderDirectives(Tail(ds))

\* The header value on the wire: "[<user agent>: ]<directive>[, <directive>]*".
RenderHeader(h) ==
    (IF h.scope = None THEN "" ELSE h.scope \o ": ") \o RenderDirectives(h.directives)

\* download_image, lines 134-140: the response's X-Robots-Tag headers are
\* checked when a disallow-set is configured; a disallowed response is
\* returned as (None, RobotsError), any other goes on to be read.
RobotsCheck(response, user_agent_token, disallowed_header_directives) ==
    /\ RobotsFrame
    /\ x_pc = "idle"
    /\ x_pc' = "checked"
    /\ x_response' = response
    /\ x_headers' = [i \in 1..Len(response) |-> RenderHeader(response[i])]
    /\ x_token' = user_agent_token
    /\ x_directives' = disallowed_header_directives
    /\ x_ret' = IF /\ disallowed_header_directives # {}
                   /\ is_disallowed(x_headers', user_agent_token,
                                    disallowed_header_directives)
                THEN Outcome(None, RobotsError)
                ELSE Outcome("img_stream", None)

RobotsNext ==
    \E response \in RobotsResponses, user_agent_token \in RobotsTokens,
       disallowed_header_directives \in RobotsDisallowSets :
        RobotsCheck(response, user_agent_token, disallowed_header_directives)

(***************************************************************************)
(* Specifications                                                          *)
(***************************************************************************)
\* Each specification starts every component in its state after construction.
Init ==
    /\ g_data = EmptyDict
    /\ g_lock = None
    /\ c_pc = [t \in CacheThreads |-> "idle"]
    /\ c_new = [t \in CacheThreads |-> EmptyDict]
    /\ c_keys = [t \in CacheThreads |-> {}]
    /\ c_pre = [t \in CacheThreads |-> EmptyDict]
    /\ c_ret = [t \in CacheThreads |-> None]
    /\ c_key = [t \in CacheThreads |-> NoGet]
    /\ c_dumped = [t \in CacheThreads |-> NoDump]
    /\ c_snap = [t \in CacheThreads |-> NoSnap]
    /\ r_store = EmptyDict
    /\ r_lru = <<>>
    /\ r_stats = [c \in RedisClients |-> [hits |-> 0, misses |-> 0]]
    /\ r_pc = [c \in RedisClients |-> "idle"]
    /\ r_op = [c \in RedisClients |-> None]
    /\ r_key = [c \in RedisClients |-> None]
    /\ r_data = [c \in RedisClients |-> None]
    /\ r_ret = [c \in RedisClients |-> None]
    /\ r_pre = [c \in RedisClients |-> None]
    /\ r_put = EmptyDict
    /\ r_recent = <<>>
    /\ r_ops = 0
    /\ dns_blacklist = {}
    /\ nameservers = None
    /\ f_pc = [t \in FetchThreads |-> "idle"]
    /\ f_conf = NoConf
    /\ f_domain = [t \in FetchThreads |-> None]
    /\ f_attempts = [t \in FetchThreads |-> 0]
    /\ f_out = [t \in FetchThreads |-> Outcome(None, None)]
    /\ f_sel = [t \in FetchThreads |-> None]
    /\ f_num_retries = [t \in FetchThreads |-> 0]
    /\ f_nsel = [t \in FetchThreads |-> 0]
    /\ f_res = [t \in FetchThreads |-> NoRes]
    /\ f_ret = [t \in FetchThreads |-> Outcome(None, None)]
    /\ f_calls = 0
    /\ thread_count = 0
    /\ count = 0
    /\ semaphore = 0
    /\ s_pc = "init"
    /\ gen_pc = "acquire"
    /\ gen_next = 0
    /\ inqueue = <<>>
    /\ w_key = [w \in PoolWorkers |-> NoKey]
    /\ outqueue = <<>>
    /\ s_cur = NoItem
    /\ writes = [key \in ShardKeys |-> 0]
    /\ printed = {}
    /\ released = 0
    /\ successes = 0
    /\ failed_to_download = 0
    /\ failed_to_resize = 0
    /\ s_result = NoResult
    /\ hash_indice = None
    /\ s_resolver = None
    /\ s_meta = NoMeta
    /\ s_write = NoWrite
    /\ s_steps = <<>>
    /\ s_stats = NoStats
    /\ s_invocations = 0
    /\ status_dict = EmptyDict
    /\ written = NoneWritten
    /\ s_hist = NoHist
    /\ k_call = NoKeyCall
    /\ k_ret = None
    /\ sc_data = EmptyDict
    /\ sc_pc = [t \in SimpleThreads |-> "idle"]
    /\ sc_dumped = [t \in SimpleThreads |-> EmptyDict]
    /\ sc_pre = [t \in SimpleThreads |-> EmptyDict]
    /\ sc_dumps = <<>>
    /\ sc_put = {}
    /\ sc_raced = FALSE
    /\ sc_ops = 0
    /\ x_pc = "idle"
    /\ x_response = <<>>
    /\ x_headers = <<>>
    /\ x_token = None
    /\ x_directives = {}
    /\ x_ret = Outcome(None, None)
    /\ d_state = "default"
    /\ d_arg = "shared_lru"
    /\ cache_type = "shared_lru"

CacheSpec == Init /\ [][CacheNext]_vars

RedisSpec == Init /\ [][RedisNext]_vars

RaceSpec == Init /\ [][RaceNext]_vars

FetchSpec == Init /\ [][FetchNext]_vars

ShardSpec == Init /\ [][ShardNext]_vars

ItemSpec == Init /\ [][ItemNext]_vars

KeySpec == Init /\ [][KeyNext]_vars

SimpleSpec == Init /\ [][SimpleNext]_vars

RobotsSpec == Init /\ [][RobotsNext]_vars

\* The threads of the process keep being scheduled: while some step of the
\* program can be taken, one is taken.
LiveSpec == Init /\ [][LiveNext]_vars /\ WF_vars(LiveNext)

PoolSpec == Init /\ [][PoolNext]_vars

BackendSpec == Init /\ [][BackendNext]_vars


(***************************************************************************)
(* Claims                                                                  *)
(***************************************************************************)

(***************************************************************************)
(* C1: during download_shard the number of rows the generator has yielded  *)
(* to the pool and whose post-processing has not finished (the loop body   *)
(* has not reached its semaphore.release()) never exceeds 2 * thread_count,*)
(* for every shard size, worker count and completion order.                *)
(***************************************************************************)
C1_Backpressure ==
    /\ gen_next - released <= 2 * thread_count
    /\ gen_next - released =
           Len(inqueue) + Cardinality({w \in PoolWorkers : w_key[w] # NoKey})
             + Len(outqueue) + (IF s_cur.key # NoKey THEN 1 ELSE 0)

\* The generator is blocked: 2 * thread_count rows are in flight, more are left.
C1_Witness ==
    /\ thread_count = 2
    /\ gen_next - released = 2 * thread_count
    /\ gen_next < count
    /\ semaphore = 0
    /\ Len(outqueue) >= 2
    /\ outqueue[1].key > outqueue[2].key

(***************************************************************************)
(* C2: when the item loop has ended, the writer has received exactly one   *)
(* write call for every row of the shard, never zero and never two,        *)
(* whatever the row's download and processing came to.                     *)
(***************************************************************************)
C2_ExactlyOneWritePerItem ==
    s_pc \in {"close", "write_stats", "rm"} =>
        \A key \in 0..(count - 1) : writes[key] = 1

(***************************************************************************)
(* C3: download_image_with_retry performs at most retries + 1 attempts; a  *)
(* further attempt is made only after an attempt without payload, so the   *)
(* first attempt with a payload is the one returned; and when all          *)
(* retries + 1 attempts came back without payload it returns no payload    *)
(* and the error of the last attempt.                                      *)
(***************************************************************************)
C3_RetryLoop ==
    \A t \in FetchThreads :
        /\ f_attempts[t] <= f_conf.retries + 1
        /\ (f_pc[t] = "loop" /\ f_attempts[t] > 0) => f_out[t].img_stream = None
        /\ (f_pc[t] \in {"select", "nameservers", "resolve", "resolved", "request"}
                /\ f_attempts[t] > 1) => f_out[t].img_stream = None
        /\ f_pc[t] = "returned" =>
              IF f_out[t].img_stream # None
              THEN f_ret[t] = f_out[t]
              ELSE /\ f_attempts[t] = f_conf.retries + 1
                   /\ f_ret[t] = Outcome(None, f_out[t].err)
                   /\ f_ret[t].err # None

\* A call returned the payload of its first attempt although a retry was left.
C3_Witness ==
    \E t \in FetchThreads :
        /\ f_pc[t] = "returned"
        /\ f_ret[t].img_stream # None
        /\ f_attempts[t] = 1
        /\ f_conf.retries >= 1

(***************************************************************************)
(* C4: a resolve_domain call chain whose queries all fail, started with    *)
(* num_retries = N, makes N + 1 resolver selections and returns            *)
(* success = False.  Stated for every chain that has only seen failures:   *)
(* while it has made fewer than N + 1 selections and is in the selection   *)
(* loop, a resolver that is not blacklisted is left for it to select, and  *)
(* when it has returned False it has made exactly N + 1 selections.        *)
(***************************************************************************)
C4_FailingDomainSelections ==
    \A t \in FetchThreads :
        /\ (f_pc[t] = "select" /\ f_nsel[t] < f_conf.dns_num_retries + 1) =>
                PUBLIC_DNS_SERVERS \ dns_blacklist # {}
        /\ (f_pc[t] = "resolved" /\ ~f_res[t].success) =>
                f_nsel[t] = f_conf.dns_num_retries + 1

(***************************************************************************)
(* C5: every top-level resolve_domain call made by a fetch attempt starts  *)
(* with an empty blacklist: when a call chain is about to make its first   *)
(* selection, no resolver of the pool is excluded.                         *)
(***************************************************************************)
C5_FreshBlacklistPerRequest ==
    \A t \in FetchThreads :
        (f_pc[t] = "select" /\ f_nsel[t] = 0) => dns_blacklist = {}

(***************************************************************************)
(* C6: every resolve_domain call returns after at most num_retries + 1     *)
(* resolver attempts, whatever calls came before: the selection loop       *)
(* `while selected_dns_server is None or selected_dns_server in            *)
(* dns_blacklist` is never entered with every resolver of the pool         *)
(* blacklisted (the blacklist only grows, so from such a state the loop    *)
(* would never be left).                                                   *)
(***************************************************************************)
C6_ResolveTerminates ==
    \A t \in FetchThreads :
        /\ f_nsel[t] <= f_conf.dns_num_retries + 1
        /\ f_pc[t] = "select" =>
                \E server \in PUBLIC_DNS_SERVERS : server \notin dns_blacklist

(***************************************************************************)
(* C7: GlobalCache.merge(new_data) keeps the value of every key that was   *)
(* already cached (first writer wins), and when it has updated the dict    *)
(* the key set is the union of the previous keys and new_data's keys,      *)
(* every new key mapped to its value in new_data.                          *)
(***************************************************************************)
C7_MergeFirstWriterWins ==
    \A t \in CacheThreads :
        c_pc[t] = "merge_release" =>
            /\ DOMAIN g_data = DOMAIN c_pre[t] \cup DOMAIN c_new[t]
            /\ \A k \in DOMAIN c_pre[t] : g_data[k] = c_pre[t][k]
            /\ \A k \in DOMAIN c_new[t] \ DOMAIN c_pre[t] : g_data[k] = c_new[t][k]

\* A merge has run whose new_data held a cached key with another value and a new key.
C7_Witness ==
    \E t \in CacheThreads :
        /\ c_pc[t] = "merge_release"
        /\ \E k \in DOMAIN c_pre[t] \cap DOMAIN c_new[t] : c_new[t][k] # c_pre[t][k]
        /\ DOMAIN c_new[t] \ DOMAIN c_pre[t] # {}

(***************************************************************************)
(* C8: LRUCacheRedis round trip.  A get(k) that follows a put(k, v), no    *)
(* put or flush of k in between, returns v, whatever was done to other     *)
(* keys meanwhile.  r_put holds, per CacheKey, the answer of the latest    *)
(* put that no flush has removed.                                          *)
(***************************************************************************)
C8_GetAfterPut ==
    \A c \in RedisClients :
        (r_pc[c] = "return" /\ r_op[c] = "get" /\ r_key[c] \in DOMAIN r_put) =>
            r_ret[c] = r_put[r_key[c]]

\* A get of a put key returned after other keys were put or hit since.
C8_Witness ==
    \E c \in RedisClients :
        /\ r_pc[c] = "return" /\ r_op[c] = "get"
        /\ r_key[c] \in DOMAIN r_put
        /\ r_ret[c] \in Answers
        /\ Len(r_pre[c].lru) >= 2
        /\ Head(r_pre[c].lru) # GenerateCacheKey(r_key[c])

(***************************************************************************)
(* C9: a get of a key that is in the store returns the stored answer,      *)
(* adds exactly one to the hit counter, leaves the miss counter, and then  *)
(* the key is the first element of the recency list.                       *)
(***************************************************************************)
C9_GetHit ==
    \A c \in RedisClients :
        (/\ r_pc[c] = "return" /\ r_op[c] = "get"
         /\ GenerateCacheKey(r_key[c]) \in DOMAIN r_pre[c].store) =>
            /\ r_ret[c] = PickleLoads(r_pre[c].store[GenerateCacheKey(r_key[c])])
            /\ r_stats[c].hits = r_pre[c].stats.hits + 1
            /\ r_stats[c].misses = r_pre[c].stats.misses
            /\ r_lru # <<>>
            /\ Head(r_lru) = GenerateCacheKey(r_key[c])

\* A get hit a key that was not at the head of the recency list.
C9_Witness ==
    \E c \in RedisClients :
        /\ r_pc[c] = "return" /\ r_op[c] = "get"
        /\ GenerateCacheKey(r_key[c]) \in DOMAIN r_pre[c].store
        /\ Len(r_pre[c].lru) >= 2
        /\ Head(r_pre[c].lru) # GenerateCacheKey(r_key[c])

(***************************************************************************)
(* C10: a get of a key that is not in the store returns None, adds exactly *)
(* one to the miss counter, and leaves the hit counter, the store and the  *)
(* recency list as they were.                                              *)
(***************************************************************************)
C10_GetMiss ==
    \A c \in RedisClients :
        (/\ r_pc[c] = "return" /\ r_op[c] = "get"
         /\ GenerateCacheKey(r_key[c]) \notin DOMAIN r_pre[c].store) =>
            /\ r_ret[c] = None
            /\ r_stats[c].misses = r_pre[c].stats.misses + 1
            /\ r_stats[c].hits = r_pre[c].stats.hits
            /\ r_store = r_pre[c].store
            /\ r_lru = r_pre[c].lru

\* A get missed while the store and the recency list held other keys.
C10_Witness ==
    \E c \in RedisClients :
        /\ r_pc[c] = "return" /\ r_op[c] = "get"
        /\ GenerateCacheKey(r_key[c]) \notin DOMAIN r_pre[c].store
        /\ r_pre[c].lru # <<>>
        /\ r_stats[c].misses = 1

(***************************************************************************)
(* C11: LRUCacheRedis.flush(k) removes k from the store and from the       *)
(* recency list and leaves every other key's store entry and its place     *)
(* among the others in the recency list as they were; flush() without a    *)
(* key leaves the store and the recency list empty.                        *)
(***************************************************************************)
C11_Flush ==
    \A c \in RedisClients :
        (r_pc[c] = "return" /\ r_op[c] = "flush") =>
            IF r_key[c] = NoCacheKey
            THEN r_store = EmptyDict /\ r_lru = <<>>
            ELSE LET cache_key == GenerateCacheKey(r_key[c])
                     before == r_pre[c].lru
                     Others(list) == {list[i] : i \in 1..Len(list)} \ {cache_key}
                     Index(list, e) == CHOOSE i \in 1..Len(list) : list[i] = e
                 IN  /\ DOMAIN r_store = DOMAIN r_pre[c].store \ {cache_key}
                     /\ \A k \in DOMAIN r_store : r_store[k] = r_pre[c].store[k]
                     /\ \A i \in 1..Len(r_lru) : r_lru[i] # cache_key
                     /\ Others(r_lru) = Others(before)
                     /\ Len(r_lru) = Cardinality(Others(before))
                     /\ \A a, b \in Others(before) :
                            Index(before, a) < Index(before, b) =>
                                Index(r_lru, a) < Index(r_lru, b)

\* A flush of a stored key returned while two other keys were stored, the flushed
\* key between them in the recency list.
C11_Witness ==
    \E c \in RedisClients :
        /\ r_pc[c] = "return" /\ r_op[c] = "flush"
        /\ r_key[c] # NoCacheKey
        /\ GenerateCacheKey(r_key[c]) \in DOMAIN r_pre[c].store
        /\ Len(r_pre[c].lru) = 3
        /\ r_pre[c].lru[2] = GenerateCacheKey(r_key[c])

\* The string is made of decimal digits only.
IsNumeric(str) == \A i \in 1..Len(str) : \E d \in 0..9 : SubSeq(str, i, i) = ToString(d)

RECURSIVE DecimalValue(_)
\* The number a string of decimal digits denotes.
DecimalValue(str) ==
    IF Len(str) = 0 THEN 0
    ELSE 10 * DecimalValue(SubSeq(str, 1, Len(str) - 1))
           + (CHOOSE d \in 0..9 : SubSeq(str, Len(str), Len(str)) = ToString(d))

\* No other (shard_id, key) of the same digit counts gets the key k_ret.
KeyIsUnique ==
    \A key \in 0..(Pow10(k_call.oom_sample_per_shard) - 1),
       shard_id \in 0..(Pow10(k_call.oom_shard_count) - 1) :
        compute_key(key, shard_id, k_call.oom_sample_per_shard, k_call.oom_shard_count) = k_ret
            => (key = k_call.key /\ shard_id = k_call.shard_id)

(***************************************************************************)
(* C12: for 0 <= key < 10^oom_sample_per_shard and                         *)
(* 0 <= shard_id < 10^oom_shard_count, compute_key returns the decimal     *)
(* string of shard_id * 10^oom_sample_per_shard + key, all digits,         *)
(* zero-padded to exactly oom_sample_per_shard + oom_shard_count           *)
(* characters, and no two (shard_id, key) pairs get the same string.       *)
(***************************************************************************)
C12_KeyFormat ==
    k_ret # None =>
        /\ Len(k_ret) = k_call.oom_sample_per_shard + k_call.oom_shard_count
        /\ IsNumeric(k_ret)
        /\ DecimalValue(k_ret) =
               k_call.shard_id * Pow10(k_call.oom_sample_per_shard) + k_call.key
        /\ KeyIsUnique

(***************************************************************************)
(* C12, amended: as C12, the length being oom_sample_per_shard +           *)
(* oom_shard_count when that sum is at least 1 and one character (the key  *)
(* "0") when both digit counts are 0.                                      *)
(***************************************************************************)
C12_KeyFormatMinOneDigit ==
    k_ret # None =>
        /\ Len(k_ret) = IF k_call.oom_sample_per_shard + k_call.oom_shard_count = 0
                        THEN 1
                        ELSE k_call.oom_sample_per_shard + k_call.oom_shard_count
        /\ IsNumeric(k_ret)
        /\ DecimalValue(k_ret) =
               k_call.shard_id * Pow10(k_call.oom_sample_per_shard) + k_call.key
        /\ KeyIsUnique

\* A key with a shard part and a row part, zeros put in front.
C12_Witness ==
    /\ k_ret # None
    /\ k_call.oom_sample_per_shard >= 1 /\ k_call.oom_shard_count >= 1
    /\ k_call.shard_id = 0
    /\ k_call.key > 0
    /\ SubSeq(k_ret, 1, 1) = "0"

\* In how many places the entry of key is: the cache, a dump that has cleared the
\* cache and is about to return, the dumps returned.
Copies(key) ==
    (IF key \in DOMAIN sc_data THEN 1 ELSE 0)
      + Cardinality({t \in SimpleThreads : sc_pc[t] = "return" /\ key \in DOMAIN sc_dumped[t]})
      + Cardinality({i \in 1..Len(sc_dumps) : key \in DOMAIN sc_dumps[i]})

(***************************************************************************)
(* C13: SimpleCache.dump is an atomic drain, also when a put (or another   *)
(* dump) of another thread interleaves with it: when it returns it holds   *)
(* exactly the entries present when it was called, none of them is left   *)
(* in the cache, and every entry ever put is in exactly one place: the     *)
(* cache or one dump.  None is lost, none is returned twice.               *)
(***************************************************************************)
C13_AtomicDrain ==
    /\ \A key \in sc_put : Copies(key) = 1
    /\ \A t \in SimpleThreads :
           sc_pc[t] = "return" => (sc_dumped[t] = sc_pre[t] /\ DOMAIN sc_data \cap DOMAIN sc_pre[t] = {})

(***************************************************************************)
(* C13, amended: dump is a drain as long as no other call runs between     *)
(* its copy and its clear.  In every run in which no put and no dump       *)
(* started while a dump was between `self.data.copy()` and                 *)
(* `self.data.clear()`, a returning dump holds exactly the entries present *)
(* when it was called and has left none of them in the cache, and every    *)
(* entry ever put is in exactly one place, the cache or one dump.          *)
(***************************************************************************)
C13_DrainWhenNotInterleaved ==
    ~sc_raced =>
        /\ \A key \in sc_put : Copies(key) = 1
        /\ \A t \in SimpleThreads :
               sc_pc[t] = "return" => (sc_dumped[t] = sc_pre[t] /\ DOMAIN sc_data \cap DOMAIN sc_pre[t] = {})

\* Two dumps have returned entries, none of them interleaved, and the cache holds
\* an entry put since.
C13_Witness ==
    /\ ~sc_raced
    /\ Len(sc_dumps) = 2
    /\ sc_dumps[1] # EmptyDict /\ sc_dumps[2] # EmptyDict
    /\ sc_data # EmptyDict

(***************************************************************************)
(* C14: every metadata record handed to sample_writer.write carries one of *)
(* the statuses success, failed_to_download, failed_to_resize (never       *)
(* None); the status is success only if the fetch returned a payload, the  *)
(* hash check (if any) passed and the resizer was called and reported no   *)
(* error; a failed fetch is written as failed_to_download; and the image   *)
(* argument is not None exactly when the status is success.                *)
(***************************************************************************)
C14_OneTerminalStatus ==
    s_write # NoWrite =>
        /\ s_write.key = s_cur.key
        /\ s_write.status \in {"success", "failed_to_download", "failed_to_resize"}
        /\ s_write.status = "success" =>
               /\ s_cur.img_stream # None /\ s_cur.error_message = None
               /\ ~s_meta.test_hash_differs
               /\ s_meta.resizer_called
               /\ s_write.error_message = None
        /\ s_cur.error_message # None => s_write.status = "failed_to_download"
        /\ (s_write.img # None) <=> (s_write.status = "success")

\* A row was written as failed_to_resize after a success and a failed download.
C14_Witness ==
    /\ s_write # NoWrite
    /\ s_write.status = "failed_to_resize"
    /\ successes = 1
    /\ failed_to_download = 1

(***************************************************************************)
(* C15: with hash verification configured, a payload whose digest differs  *)
(* from the row's reference value is classified failed_to_download with    *)
(* error message "hash mismatch" and written with no image, and the        *)
(* resizer is not called for it.                                           *)
(***************************************************************************)
C15_HashMismatch ==
    (hash_indice # None /\ s_meta.test_hash_differs) =>
        /\ s_pc \in {"write", "release"}
        /\ ~s_meta.resizer_called
        /\ s_meta.status = "failed_to_download"
        /\ s_meta.error_message = "hash mismatch"
        /\ s_meta.img = None
        /\ s_pc = "release" =>
               s_write = [key |-> s_cur.key, img |-> None, status |-> "failed_to_download",
                          error_message |-> "hash mismatch"]

\* A row with a differing hash has been written.
C15_Witness ==
    /\ s_pc = "release"
    /\ hash_indice # None
    /\ s_meta.test_hash_differs
    /\ s_write.key = s_cur.key
    /\ failed_to_download = 1

(***************************************************************************)
(* C16: an exception raised while one row is post-processed (by the        *)
(* resizer, the hash computation or the writer's write) stays inside the   *)
(* item loop: the row's semaphore unit is released all the same (the       *)
(* semaphore's value is always 2 * thread_count less the rows acquired     *)
(* that are queued, with a worker or in the loop body),                    *)
(* the shard is not abandoned (the loop is left only when every row's body *)
(* has run), and every row that raised nothing has been written.           *)
(***************************************************************************)
C16_ItemExceptionContained ==
    /\ thread_count > 0 =>
           semaphore = 2 * thread_count
                         - (IF gen_pc = "yield" THEN 1 ELSE 0)
                         - Len(inqueue)
                         - Cardinality({w \in PoolWorkers : w_key[w] # NoKey})
                         - Len(outqueue)
                         - (IF s_cur.key # NoKey THEN 1 ELSE 0)
    /\ (thread_count > 0 /\ s_pc \in {"close", "write_stats", "rm", "done"}) =>
           /\ released = count
           /\ \A key \in 0..(count - 1) : key \notin printed => writes[key] = 1

\* The loop has ended; the first row's processing raised before its write and the
\* two other rows were written.
C16_Witness ==
    /\ s_pc = "close"
    /\ count = 3
    /\ printed = {0}
    /\ writes[0] = 0 /\ writes[1] = 1 /\ writes[2] = 1

(***************************************************************************)
(* C17: __call__(row) calls download_shard once, never a second time, and  *)
(* returns (True, row) when download_shard ran to its end (its last step,  *)
(* fs.rm, done) and (False, row), with the row it was given, when an       *)
(* exception left download_shard.                                          *)
(***************************************************************************)
C17_CallResult ==
    /\ s_invocations <= 1
    /\ s_pc # "done" => s_result = NoResult
    /\ s_pc = "done" =>
           /\ s_invocations = 1
           /\ s_result \in {<<TRUE, ShardRow>>, <<FALSE, ShardRow>>}
           /\ s_result[1] <=> (s_steps # <<>> /\ s_steps[Len(s_steps)] = "rm")

\* download_shard failed after the item loop had processed its rows.
C17_Witness ==
    /\ s_pc = "done"
    /\ s_result = <<FALSE, ShardRow>>
    /\ count = 2
    /\ released = count

(***************************************************************************)
(* C18: at shard completion the statistics are reported first, then the    *)
(* writer is closed, then the shard's input file is deleted.               *)
(***************************************************************************)
C18_StatsThenCloseThenRm ==
    (s_pc = "done" /\ s_result[1]) => s_steps = <<"write_stats", "close", "rm">>

(***************************************************************************)
(* C18, amended: at shard completion the writer is closed first, then the  *)
(* statistics are reported, then the shard's input file is deleted.        *)
(***************************************************************************)
C18_CloseThenStatsThenRm ==
    /\ \E n \in 0..3 : s_steps = SubSeq(<<"close", "write_stats", "rm">>, 1, n)
    /\ (s_pc = "done" /\ s_result[1]) => s_steps = <<"close", "write_stats", "rm">>
    /\ (s_steps # <<>> /\ s_stats = NoStats) => s_steps = <<"close">>

\* A shard with rows has completed.
C18_Witness ==
    /\ s_pc = "done"
    /\ s_result[1]
    /\ count = 2
    /\ s_stats # NoStats

(***************************************************************************)
(* C19: without a resolver (use_public_dns false) the DNS cache hits,      *)
(* misses and size passed to write_stats are all zero.                     *)
(***************************************************************************)
C19_DnsFiguresZero ==
    (s_stats # NoStats /\ s_resolver = None) =>
        /\ s_stats[1].dns_cache_hits = 0
        /\ s_stats[1].dns_cache_misses = 0
        /\ s_stats[1].dns_cache_size = 0

(***************************************************************************)
(* C19, amended: without a resolver the DNS cache hits and size passed to  *)
(* write_stats are zero and the misses are the shard's row count.          *)
(***************************************************************************)
C19_DnsMissesAreCount ==
    (s_stats # NoStats /\ s_resolver = None) =>
        /\ s_stats[1].dns_cache_hits = 0
        /\ s_stats[1].dns_cache_misses = s_stats[1].count
        /\ s_stats[1].count = count
        /\ s_stats[1].dns_cache_size = 0

\* The statistics of a shard of three rows were reported without a resolver.
C19_Witness ==
    /\ s_stats # NoStats
    /\ s_resolver = None
    /\ count = 3

(***************************************************************************)
(* C20                                                                     *)
(***************************************************************************)
\* What the header, as the server built it, says: it lists a directive of the
\* disallow-set (names compared case-insensitively), and it is unscoped or
\* scoped to the caller's token.
HeaderApplies(h, token, disallowed) ==
    /\ \E i \in 1..Len(h.directives) : lower(h.directives[i].name) \in disallowed
    /\ (h.scope = None \/ lower(h.scope) = token)

\* C20: with a non-empty disallow-set configured, the fetch attempt fails
\* with "Use of image disallowed by X-Robots-Tag directive" and an absent
\* payload if and only if some X-Robots-Tag header of the response lists a
\* directive of the disallow-set and is unscoped or scoped to the caller's
\* token; an unscoped matching header fails the attempt whatever the token.
C20_RobotsDisallowed ==
    (x_pc = "checked" /\ x_directives # {}) =>
        /\ (x_ret = Outcome(None, RobotsError))
             <=> (\E i \in 1..Len(x_response) :
                     HeaderApplies(x_response[i], x_token, x_directives))
        /\ (\E i \in 1..Len(x_response) :
                /\ x_response[i].scope = None
                /\ HeaderApplies(x_response[i], x_token, x_directives))
             => x_ret = Outcome(None, RobotsError)

(***************************************************************************)
(* C21                                                                     *)
(***************************************************************************)
\* C21: constructing a Downloader raises if and only if dns_cache_type is not
\* one of the three recognized tags; the failure comes at construction,
\* before any shard is read; and a Downloader built with a recognized tag
\* never fails later because of the tag: with a shard file that opens and
\* collaborators that do not raise, its shard call returns (True, row).
C21_CacheTypeCheckedAtConstruction ==
    /\ (d_state = "raised") <=> (d_arg \notin _VALID_CACHE_TYPES)
    /\ (d_state = "raised") => (s_invocations = 0 /\ s_pc = "init" /\ gen_next = 0)
    /\ (d_state # "raised" /\ s_pc = "done") => s_result = CallResult(TRUE)

(***************************************************************************)
(* C24                                                                     *)
(***************************************************************************)
\* C24: for each of the three cache backends, with DNS resolution enabled, a
\* shard whose items have all been post-processed reaches the stats report
\* with the cache's hit, miss and size figures, and the shard call returns
\* (True, row).
C24_StatsForEveryBackend ==
    (/\ cache_type \in _VALID_CACHE_TYPES
     /\ s_resolver # None
     /\ s_pc = "done") =>
        /\ s_stats # NoStats
        /\ s_stats[1].count = count
        /\ {s_stats[1].dns_cache_hits, s_stats[1].dns_cache_misses,
            s_stats[1].dns_cache_size} \subseteq 0..1
        /\ s_result = CallResult(TRUE)

(***************************************************************************)
(* C22                                                                     *)
(***************************************************************************)
\* C22: each row of the shard is handed to the worker pool exactly once, in
\* every state a row has been fetched by at most one task and classified at
\* most once, and when the item loop is over no row has been skipped: every
\* row has been handed over, fetched and classified exactly once.
C22_EachRowOnce ==
    \A k \in ShardKeys :
        /\ s_hist[k].handed = IF k < gen_next /\ k < count THEN 1 ELSE 0
        /\ s_hist[k].fetched <= s_hist[k].handed
        /\ s_hist[k].classified <= s_hist[k].fetched
        /\ (s_pc \in {"close", "write_stats", "rm"} /\ k < count) =>
                /\ s_hist[k].handed = 1
                /\ s_hist[k].fetched = 1
                /\ s_hist[k].classified = 1

\* A shard of three rows run by two workers has left the item loop.
C22_Witness ==
    /\ s_pc = "close"
    /\ count = 3
    /\ thread_count = 2
    /\ \A k \in 0..2 : s_hist[k].classified = 1

(***************************************************************************)
(* C23                                                                     *)
(***************************************************************************)
\* C23: without a resolver a fetch attempt skips the resolution and issues the
\* HTTP GET, so what the attempt hands back is what the request and the
\* response came to: the payload and no error when the GET succeeds and the
\* response is not disallowed.
C23_FetchWithoutResolver ==
    \A t \in FetchThreads :
        (f_conf.ready /\ f_conf.resolver = None /\ f_pc[t] = "check") =>
            f_out[t] \in HttpOutcomes

(***************************************************************************)
(* C25                                                                     *)
(***************************************************************************)
\* C25: whatever the interleaving of the pool's threads, the resolver address
\* queried by a resolve_domain attempt (the shared Resolver's nameservers
\* when its resolve runs) is the one the attempt selected, and the address a
\* failed attempt adds to the blacklist is the one that was queried.
C25_QueriedIsSelected ==
    [][\A t \in FetchThreads :
          (f_pc[t] = "resolve" /\ f_pc'[t] # "resolve") =>
              /\ nameservers = f_sel[t]
              /\ dns_blacklist' \subseteq dns_blacklist \cup {nameservers}]_vars

(***************************************************************************)
(* C27                                                                     *)
(***************************************************************************)
\* The text download_image puts in front of a failed resolution's error.
DnsFailurePrefix == "DNS resolution failed: "

IsDnsFailure(err) ==
    /\ err # None
    /\ Len(err) >= Len(DnsFailurePrefix)
    /\ SubSeq(err, 1, Len(DnsFailurePrefix)) = DnsFailurePrefix

\* C27: when resolve_domain reports a failure, the attempt ends there: it
\* goes to the retry loop's check without issuing the request, with an absent
\* payload and a "DNS resolution failed" message, and it has used up one, and
\* only one, of the row's retries + 1 attempts.
C27_DnsFailureEndsAttempt ==
    [][\A t \in FetchThreads :
          (f_pc[t] = "resolved" /\ ~f_res[t].success /\ f_pc'[t] # "resolved") =>
              /\ f_pc'[t] = "check"
              /\ f_out'[t].img_stream = None
              /\ IsDnsFailure(f_out'[t].err)
              /\ f_attempts'[t] = f_attempts[t]
              /\ f_attempts[t] \in 1..(f_conf.retries + 1)]_vars

\* An attempt that was not the row's first has ended on a failed resolution.
C27_Witness ==
    \E t \in FetchThreads :
        /\ f_pc[t] = "check"
        /\ f_attempts[t] = 2
        /\ IsDnsFailure(f_out[t].err)

(***************************************************************************)
(* C28                                                                     *)
(***************************************************************************)
\* C28: two rows whose resolution fails with the same canonical resolver error
\* (every failure here is the resolver's "name does not exist") get the same
\* error message, whatever their domains.
C28_SameMessageForSameDnsError ==
    \A t, u \in FetchThreads :
        (/\ f_pc[t] = "check" /\ IsDnsFailure(f_out[t].err)
         /\ f_pc[u] = "check" /\ IsDnsFailure(f_out[u].err)) =>
            f_out[t].err = f_out[u].err

C30_ValueNeverChanges ==
    [][/\ \A k \in DOMAIN g_data : k \in DOMAIN g_data' /\ g_data'[k] = g_data[k]
       /\ \A t \in CacheThreads :
             (c_pc[t] = "merge_update" /\ c_pc'[t] = "merge_release") =>
                 \A k \in DOMAIN c_new[t] \ DOMAIN c_pre[t] : g_data'[k] = c_new[t][k]
       /\ \A t \in CacheThreads :
             (c_key'[t] # NoGet /\ c_ret'[t] # None) =>
                 /\ c_key'[t] \in DOMAIN g_data'
                 /\ g_data'[c_key'[t]] = c_ret'[t]]_vars

\* A get returned a key's value, and a merge carrying another value for that key
\* has run since to its end.
C30_Witness ==
    \E t, u \in CacheThreads :
        /\ c_key[t] # NoGet
        /\ c_ret[t] # None
        /\ c_pc[u] = "merge_release"
        /\ c_key[t] \in DOMAIN c_new[u]
        /\ c_new[u][c_key[t]] # c_ret[t]
        /\ DOMAIN c_new[u] \ DOMAIN c_pre[u] # {}

(***************************************************************************)
(* C26                                                                     *)
(***************************************************************************)
\* C26: for a finite shard whose resolver queries, HTTP requests and
\* collaborator calls all return, the shard call eventually returns, with
\* every row classified, the producer past every row, and the pool drained:
\* no task waiting and no worker busy.
C26_ShardTerminates ==
    (s_pc = "loop") ~>
        (/\ s_pc = "done"
         /\ gen_next = count
         /\ inqueue = <<>>
         /\ \A w \in PoolWorkers : w_key[w] = NoKey
         /\ \A k \in ShardKeys : k < count => s_hist[k].classified = 1)

(***************************************************************************)
(* C31                                                                     *)
(***************************************************************************)
\* The rows whose pass through the loop body is over.
Finished ==
    {k \in ShardKeys : k < count /\ s_hist[k].classified = 1 /\ s_cur.key # k}

\* The units data_generator has acquired.
Acquired == gen_next + (IF gen_pc = "yield" THEN 1 ELSE 0)

\* C31: whatever path a row takes through the loop body (failed download,
\* hash mismatch, resize failure, success, caught exception), its unit is
\* released exactly once: the releases are as many as the rows whose body is
\* over and never more than the acquisitions, the semaphore's value is the
\* initial 2 * thread_count minus the units still held and never above
\* 2 * thread_count, and after the last row every unit is free.
C31_UnitReleasedOncePerItem ==
    s_pc \notin {"init", "done"} =>
        /\ released = Cardinality(Finished)
        /\ released <= Acquired
        /\ semaphore = 2 * thread_count - Acquired + released
        /\ semaphore <= 2 * thread_count
        /\ s_pc \in {"close", "write_stats", "rm"} =>
                (released = count /\ semaphore = 2 * thread_count)

\* A shard of three rows is over, one row's body having raised, one having
\* failed and one having succeeded.
C31_Witness ==
    /\ s_pc = "close"
    /\ count = 3
    /\ released = 3
    /\ printed # {}
    /\ failed_to_download + failed_to_resize > 0
    /\ \E k \in ShardKeys : writes[k] = 1 /\ k \notin printed

(***************************************************************************)
(* C32: LRUCacheRedis's recency list when the methods run one at a time    *)
(***************************************************************************)

RedisIdle == \A c \in RedisClients : r_pc[c] = "idle"

ListedKeys == {r_lru[i] : i \in 1..Len(r_lru)}

EachListedOnce == \A i, j \in 1..Len(r_lru) : r_lru[i] = r_lru[j] => i = j

\* C32: after any sequence of put, get and flush run one at a time, lru_list
\* holds exactly the keys of the store, each once, from the most to the least
\* recently put or hit.
C32_ListMirrorsStoreByRecency ==
    RedisIdle =>
        /\ ListedKeys = DOMAIN r_store
        /\ EachListedOnce
        /\ r_lru = r_recent

C32_Witness ==
    /\ RedisIdle
    /\ r_ops = MaxRedisOps
    /\ Len(r_lru) = 2
    /\ \E c \in RedisClients : r_stats[c].hits = 1
    /\ \E key \in RedisKeys : key \notin DOMAIN r_put /\ GenerateCacheKey(key) \notin ListedKeys

(***************************************************************************)
(* C33: LRUCacheRedis's recency list when the clients' commands interleave *)
(***************************************************************************)

\* C33: with get, put and flush of several clients interleaved command by
\* command, once the methods have returned lru_list holds each key at most
\* once and no key that is absent from the store.
C33_ListConsistentAfterRaces ==
    RedisIdle => (EachListedOnce /\ ListedKeys \subseteq DOMAIN r_store)

\* The two halves of C33, each on its own.
C33_NoDuplicateAfterRaces == RedisIdle => EachListedOnce

C33_NoAbsentKeyAfterRaces == RedisIdle => ListedKeys \subseteq DOMAIN r_store

(***************************************************************************)
(* C34: the counts reported at shard completion against what was written   *)
(***************************************************************************)

\* The total of a counter's occurrences.
RECURSIVE Sum(_)
Sum(counter) ==
    IF DOMAIN counter = {} THEN 0
    ELSE LET k == CHOOSE x \in DOMAIN counter : TRUE
         IN  counter[k] + Sum([j \in DOMAIN counter \ {k} |-> counter[j]])

\* Calls of status_dict.increment so far.
Increments == Sum(status_dict)

\* The loop has ended and no item raised on its way: every row was written
\* and none was printed as failed by the handler.
NoItemRaised == printed = {}

\* C34: when the item loop has ended, successes, failed_to_download and
\* failed_to_resize each equal the number of write calls that returned with
\* that status, status_dict received one increment per counted item, and the
\* three counts add up to at most count, to count when no item raised.
C34_CountsMatchWrites ==
    s_pc \in {"close", "write_stats", "rm"} =>
        /\ successes = written["success"]
        /\ failed_to_download = written["failed_to_download"]
        /\ failed_to_resize = written["failed_to_resize"]
        /\ Increments = successes + failed_to_download + failed_to_resize
        /\ successes + failed_to_download + failed_to_resize <= count
        /\ NoItemRaised => successes + failed_to_download + failed_to_resize = count

\* The parts of C34 on their own.
C34_CountsEqualWrites ==
    s_pc \in {"close", "write_stats", "rm"} =>
        /\ successes = written["success"]
        /\ failed_to_download = written["failed_to_download"]
        /\ failed_to_resize = written["failed_to_resize"]

C34_OneIncrementPerCountedItem ==
    Increments = successes + failed_to_download + failed_to_resize

C34_SumAtMostCount ==
    /\ successes + failed_to_download + failed_to_resize <= count
    /\ (s_pc \in {"close", "write_stats", "rm"} /\ NoItemRaised) =>
            successes + failed_to_download + failed_to_resize = count

\* The counts never fall below the writes that returned.
C34_WritesAtMostCounts ==
    /\ written["success"] <= successes
    /\ written["failed_to_download"] <= failed_to_download
    /\ written["failed_to_resize"] <= failed_to_resize

(***************************************************************************)
(* C35: the writer's close against the item loop and the write calls       *)
(***************************************************************************)

\* Calls of sample_writer.close() that returned.
CloseCount == Cardinality({i \in 1..Len(s_steps) : s_steps[i] = "close"})

\* The post-processing of every row of the shard is over.
AllPostProcessed ==
    /\ released = count
    /\ \A key \in 0..(count - 1) : s_hist[key].classified = 1
    /\ s_cur = NoItem
    /\ outqueue = <<>>

\* C35: close is called once, when the body of every item has finished; no write
\* call follows it; and write calls are made one at a time, by the thread that
\* runs the item loop.
C35_CloseOnceAfterAllItems ==
    /\ [](/\ CloseCount <= 1
          /\ s_pc \in {"write_stats", "rm"} => CloseCount = 1
          /\ (s_pc = "done" /\ s_result[1]) => CloseCount = 1
          /\ (s_pc = "close" \/ CloseCount = 1) => AllPostProcessed)
    /\ [][/\ (s_pc = "close" \/ CloseCount = 1) => (writes' = writes /\ written' = written)
          /\ writes' # writes =>
                /\ s_pc = "write" /\ s_pc' # "write"
                /\ writes' = WriteCall(writes, s_cur.key)
                /\ w_key' = w_key]_vars

\* The writer has been closed after three rows, two of them written; the third
\* row's write raised.
C35_Witness ==
    /\ CloseCount = 1
    /\ count = 3
    /\ written["success"] + written["failed_to_download"] + written["failed_to_resize"] = 2
    /\ \E key \in 0..2 : writes[key] = 1 /\ key \in printed

(***************************************************************************)
(* C36: the deletion of the shard's input file                             *)
(***************************************************************************)

\* fs.rm(shard_path) has deleted the input file.
Deleted == \E i \in 1..Len(s_steps) : s_steps[i] = "rm"

\* C36: the input file is deleted only when every item has been
\* post-processed, the writer closed and the statistics reported; and when
\* __call__ returns (False, row) the file has not been deleted.
C36_DeleteLast ==
    /\ (s_pc = "rm" \/ Deleted) =>
            /\ AllPostProcessed
            /\ Len(s_steps) >= 2
            /\ s_steps[1] = "close" /\ s_steps[2] = "write_stats"
            /\ s_stats # NoStats
            /\ s_stats[1].count = count
    /\ Deleted => s_steps = <<"close", "write_stats", "rm">>
    /\ (s_pc = "done" /\ ~s_result[1]) => ~Deleted

\* write_stats raised after a shard of two rows was processed and its writer
\* closed: __call__ returned (False, row) and the file is still there.
C36_Witness ==
    /\ s_pc = "done"
    /\ ~s_result[1]
    /\ s_steps = <<"close">>
    /\ count = 2
    /\ AllPostProcessed
    /\ ~Deleted

====
